---- MODULE Spec2Model ----
(***************************************************************************)
(* State-machine model of the RAG knowledge base: the query cache          *)
(* (services/cache), the generation pipeline (services/generation) and the *)
(* ingestion / deletion pipeline (services/ingestion) with the relational  *)
(* store and the vector index they write.                                  *)
(***************************************************************************)
EXTENDS Integers, Sequences, FiniteSets, TLC

(***************************************************************************)
(* Bounds of the model.  MaxSize and TTL are config.cache.maxSize and      *)
(* config.cache.ttl (environment-configurable, 100 and 3600000 ms by       *)
(* default), scaled down; time is counted in whole TTL-comparable ticks.   *)
(***************************************************************************)
MaxSize == 2
TTL == 1
MaxTime == 2

VARIABLES
  cache,      \* LRUCache contents, least recently used first
  now,        \* the clock the cache reads
  lastOp,     \* the last QueryCache call made by a client, with its return value
  lastSet,    \* history: the most recent set, while nothing has removed its entry
  useOrder,   \* history: the keys the clients' calls left in use, least recent first
  reqs,       \* the generateAnswer invocations, by query id
  queries,    \* rows of the queries table (the query log)
  statusEvents, \* StatusTracker.events: the last event emitted per id
  dbInstance, \* database.ts: the module's connection, "null" until opened
  documents,  \* rows of the documents table, by id
  chunks,     \* rows of the chunks table
  vectors,    \* records of the Chroma collection
  uploads,    \* POST /api/documents/upload handlers, by the id they create
  ingests,    \* ingestDocument runs, by document id
  deletes,    \* deleteDocument calls, by document id
  retrieved,  \* what the latest similarity search returned
  retrievals, \* the retrieveDocuments call
  routeCall,  \* the POST /api/query request
  listeners,  \* StatusTracker's 'status' listeners: the subscribed streams, in order
  streams,    \* the GET /api/status/stream connections
  lastEmit    \* history: the latest emitStatus call and whether it threw

cacheHist == <<lastOp, lastSet, useOrder>>
sseVars == <<listeners, streams, lastEmit>>
genVars == <<reqs, queries, statusEvents>>
ingVars == <<dbInstance, documents, chunks, vectors, uploads, ingests, deletes,
             retrieved>>
vars == <<cache, now, lastOp, lastSet, useOrder, reqs, queries, statusEvents,
          dbInstance, documents, chunks, vectors, uploads, ingests, deletes,
          retrieved, retrievals, routeCall, listeners, streams, lastEmit>>

(***************************************************************************)
(* Strings are sequences of one-character strings.                         *)
(***************************************************************************)
\* The query strings the clients pass.
Queries == {<<"a">>, <<" ", "A", " ">>, <<"b">>}

\* String.prototype.toLowerCase
toLowerCase(s) == [i \in 1..Len(s) |-> IF s[i] = "A" THEN "a" ELSE s[i]]

RECURSIVE trimStart(_)
trimStart(s) == IF s # <<>> /\ Head(s) = " " THEN trimStart(Tail(s)) ELSE s

RECURSIVE trimEnd(_)
trimEnd(s) ==
  IF s # <<>> /\ s[Len(s)] = " " THEN trimEnd(SubSeq(s, 1, Len(s) - 1)) ELSE s

\* String.prototype.trim
trim(s) == trimEnd(trimStart(s))

(***************************************************************************)
(* JavaScript values as far as the cache key reads them: strings, numbers, *)
(* undefined and plain objects.  An object is the sequence of its          *)
(* <<key, value>> pairs in insertion order (all keys are non-numeric       *)
(* strings, so Object.keys and JSON.stringify enumerate them in that       *)
(* order).                                                                 *)
(***************************************************************************)
JStr(s)   == [tag |-> "str", s |-> s, n |-> 0, o |-> <<>>]
JNum(n)   == [tag |-> "num", s |-> <<>>, n |-> n, o |-> <<>>]
JUndef    == [tag |-> "undef", s |-> <<>>, n |-> 0, o |-> <<>>]
JObj(ps)  == [tag |-> "obj", s |-> <<>>, n |-> 0, o |-> ps]
JBool(b)  == [tag |-> "bool", s |-> <<>>, n |-> IF b THEN 1 ELSE 0, o |-> <<>>]
JArr(xs)  == [tag |-> "arr", s |-> <<>>, n |-> 0, o |-> xs]

\* An optional `options` argument: absent (undefined) or an object.
NoOptions     == [present |-> FALSE, pairs |-> <<>>]
WithOptions(ps) == [present |-> TRUE, pairs |-> ps]

IndexOfName(ps, k) ==
  IF \E i \in 1..Len(ps) : ps[i][1] = k
  THEN CHOOSE i \in 1..Len(ps) : ps[i][1] = k
  ELSE 0

\* The value of a property of an object given by its pairs
PropertyOf(pairs, name) ==
  IF IndexOfName(pairs, name) = 0 THEN JUndef
  ELSE pairs[IndexOfName(pairs, name)][2]

\* Object spread { ...base, ...ps }: a key already present keeps its place
\* and takes the later value; a new key is appended.
RECURSIVE ObjectSpread(_, _)
ObjectSpread(base, ps) ==
  IF ps = <<>> THEN base
  ELSE LET p == Head(ps)
           i == IndexOfName(base, p[1])
       IN ObjectSpread(IF i = 0 THEN Append(base, p)
                       ELSE [base EXCEPT ![i] = p],
                       Tail(ps))

\* JSON.stringify of a value nested inside an object (one level deep):
\* members whose value is undefined are omitted, the others keep their order.
RECURSIVE DropUndefined(_)
DropUndefined(ps) ==
  IF ps = <<>> THEN <<>>
  ELSE IF Head(ps)[2].tag = "undef" THEN DropUndefined(Tail(ps))
       ELSE <<Head(ps)>> \o DropUndefined(Tail(ps))

StringifyNested(v) == IF v.tag = "obj" THEN JObj(DropUndefined(v.o)) ELSE v

\* JSON.stringify of an object.  The text is represented by the sequence of
\* the members it prints: two objects yield the same text exactly when these
\* sequences are equal.
JSONstringify(ps) ==
  LET kept == DropUndefined(ps)
  IN [i \in 1..Len(kept) |-> <<kept[i][1], StringifyNested(kept[i][2])>>]

\* SHA-256 hex digest, taken as collision-free: a tagged copy of its input.
hashString(text) == <<"sha256", text>>

\* QueryCache.generateKey with the normalisation of the query left out.
generateKey_NoNormalize(query, options) ==
  hashString(JSONstringify(ObjectSpread(
    << <<"query", JStr(query)>> >>,
    IF options.present /\ Len(options.pairs) > 0 THEN options.pairs ELSE <<>>)))

\* QueryCache.generateKey
generateKey(query, options) ==
  hashString(JSONstringify(ObjectSpread(
    << <<"query", JStr(trim(toLowerCase(query)))>> >>,
    IF options.present /\ Len(options.pairs) > 0 THEN options.pairs ELSE <<>>)))

(***************************************************************************)
(* LRUCache (lru-cache) as QueryCache configures it: max = maxSize,        *)
(* ttl = TTL, updateAgeOnGet = false.  The cache is the sequence of its    *)
(* entries [key, value, start], least recently used first.                 *)
(***************************************************************************)
IndexOfKey(c, k) ==
  IF \E i \in 1..Len(c) : c[i].key = k
  THEN CHOOSE i \in 1..Len(c) : c[i].key = k
  ELSE 0

RemoveAt(c, i) == SubSeq(c, 1, i - 1) \o SubSeq(c, i + 1, Len(c))

\* An entry is stale once more than ttl has elapsed since it was set.
isStale(e, t) == t - e.start > TTL

\* LRUCache.get without the move of a returned entry to the most recently
\* used end.
LRUget_NoTouch(c, k, t) ==
  LET i == IndexOfKey(c, k)
  IN IF i = 0 THEN [cache |-> c, value |-> <<>>]
     ELSE IF isStale(c[i], t) THEN [cache |-> RemoveAt(c, i), value |-> <<>>]
     ELSE [cache |-> c, value |-> <<c[i].value>>]

\* LRUCache.get as with updateAgeOnGet: a returned entry restarts its age.
LRUget_UpdateAge(c, k, t) ==
  LET i == IndexOfKey(c, k)
  IN IF i = 0 THEN [cache |-> c, value |-> <<>>]
     ELSE IF isStale(c[i], t) THEN [cache |-> RemoveAt(c, i), value |-> <<>>]
     ELSE [cache |-> Append(RemoveAt(c, i), [c[i] EXCEPT !.start = t]),
           value |-> <<c[i].value>>]

\* LRUCache.get: a stale entry is deleted and reported absent; a live one
\* becomes the most recently used and keeps its start time.
LRUget(c, k, t) ==
  LET i == IndexOfKey(c, k)
  IN IF i = 0 THEN [cache |-> c, value |-> <<>>]
     ELSE IF isStale(c[i], t) THEN [cache |-> RemoveAt(c, i), value |-> <<>>]
     ELSE [cache |-> Append(RemoveAt(c, i), c[i]), value |-> <<c[i].value>>]

\* LRUCache.set without the eviction of the least recently used entry.
LRUset_NoEvict(c, k, v, t) ==
  LET i == IndexOfKey(c, k)
      e == [key |-> k, value |-> v, start |-> t]
  IN IF i # 0 THEN Append(RemoveAt(c, i), e) ELSE Append(c, e)

\* LRUCache.set: an existing key is overwritten, restarts its age and
\* becomes the most recently used; a new key at full capacity first evicts
\* the least recently used entry.
LRUset(c, k, v, t) ==
  LET i == IndexOfKey(c, k)
      e == [key |-> k, value |-> v, start |-> t]
  IN IF i # 0 THEN Append(RemoveAt(c, i), e)
     ELSE IF Len(c) >= MaxSize THEN Append(Tail(c), e)
     ELSE Append(c, e)

\* LRUCache.delete
LRUdelete(c, k) ==
  LET i == IndexOfKey(c, k)
  IN IF i = 0 THEN [cache |-> c, deleted |-> FALSE]
     ELSE [cache |-> RemoveAt(c, i), deleted |-> TRUE]

(***************************************************************************)
(* QueryCache.  A return value of get is <<>> for null and <<r>> for the   *)
(* result r.                                                               *)
(***************************************************************************)
QueryCache_get(c, query, options, t) ==
  LET got == LRUget(c, generateKey(query, options), t)
  IN [cache |-> got.cache,
      ret   |-> IF got.value # <<>> THEN <<got.value[1].result>> ELSE <<>>]

QueryCache_set(c, query, result, options, t) ==
  LRUset(c, generateKey(query, options), [result |-> result, timestamp |-> t], t)

QueryCache_delete(c, query, options) == LRUdelete(c, generateKey(query, options))

\* clear leaving the most recently used entry in place.
QueryCache_clear_KeepNewest(c) == IF c = <<>> THEN <<>> ELSE <<c[Len(c)]>>

QueryCache_clear(c) == <<>>

QueryCache_getStats(c) == [size |-> Len(c), maxSize |-> MaxSize]

(***************************************************************************)
(* Clients of the QueryCache singleton.                                    *)
(***************************************************************************)
MkResult(answer) == [answer |-> answer, citations |-> <<>>, sources |-> <<>>]

Results == {MkResult("r1"), MkResult("r2")}

OptionSets ==
  { NoOptions,
    WithOptions(<<>>),
    WithOptions(<< <<"topK", JNum(5)>> >>),
    WithOptions(<< <<"topK", JUndef>> >>) }

NoOp == [op |-> "none", q |-> <<>>, o |-> NoOptions, ret |-> <<>>, deleted |-> FALSE,
         atCapacity |-> FALSE, at |-> 0, cleared |-> 0]

\* The most recent set is remembered while its entry is in the cache and live.
StillSet(ls, c, t) ==
  IF ls # <<>> /\ \E i \in 1..Len(c) :
        /\ c[i].key = generateKey(ls[1].q, ls[1].o)
        /\ ~isStale(c[i], t)
  THEN ls ELSE <<>>


(***************************************************************************)
(* generateAnswer.  Each invocation draws a fresh query id; the model      *)
(* keeps, per id, where the invocation stands and the calls it has made.   *)
(***************************************************************************)
QueryIds == {"q1", "q2"}

\* Document ids (createDocumentRecord draws each from generateId).
DocIds == {"d1", "d2"}

NoRow == [status |-> "none", filepath |-> ""]

IdleIngest ==
  [pc |-> "idle", n |-> 0, outcome |-> "none", status |-> "", chunksCreated |-> 0,
   error |-> "", failure |-> "", statusAtReturn |-> "", filename |-> ""]

IdleDelete ==
  [pc |-> "idle", chunkIds |-> {}, outcome |-> "none", error |-> "",
   statusAtCall |-> "", vectorDelete |-> "none"]

\* The retrieveDocuments call before it is made.
IdleRetrieval ==
  [pc |-> "idle", topK |-> 0, filter |-> JUndef, minScore |-> 0, calls |-> <<>>,
   outcome |-> "none", error |-> "", results |-> <<>>]

\* The POST /api/query request before it arrives.
IdleRouteCall ==
  [pc |-> "idle",
   body |-> [topK |-> JUndef, useCache |-> JUndef, filter |-> JUndef],
   options |-> [topK |-> JUndef, temperature |-> JUndef, maxTokens |-> JUndef,
                filter |-> JUndef, useCache |-> JUndef]]

\* Nothing uploaded, ingested, deleted or retrieved yet; the database not
\* yet opened.
IngIdle ==
  /\ dbInstance = "null"
  /\ documents = [d \in DocIds |-> NoRow]
  /\ chunks = {}
  /\ vectors = {}
  /\ uploads = [d \in DocIds |-> "idle"]
  /\ ingests = [d \in DocIds |-> IdleIngest]
  /\ deletes = [d \in DocIds |-> IdleDelete]
  /\ retrieved = {}
  /\ retrievals = IdleRetrieval
  /\ routeCall = IdleRouteCall

NoCall == [call |-> "", status |-> "", progress |-> 0, arg |-> <<>>]
EmitStatus(status, progress) ==
  [NoCall EXCEPT !.call = "emitStatus", !.status = status, !.progress = progress]
Call(name, arg) == [NoCall EXCEPT !.call = name, !.arg = arg]

NoRetrieval == [ok |-> TRUE, docs |-> <<>>, error |-> ""]

IdleReq ==
  [pc |-> "idle", question |-> <<>>,
   options |-> [topK |-> JUndef, temperature |-> JUndef, maxTokens |-> JUndef,
                filter |-> JUndef, useCache |-> JUndef],
   calls |-> <<>>, outcome |-> "none", result |-> <<>>, error |-> "",
   retrieval |-> NoRetrieval, modelError |-> "", liveAtStart |-> <<>>]

StreamIds == {"s1", "s2"}

\* A stream before the request for it; no emitStatus call made yet.
IdleStream == [state |-> "none", broken |-> FALSE, last |-> <<>>, count |-> 0]
NoEmit == [n |-> 0, event |-> <<>>, threw |-> FALSE]

GenIdle ==
  /\ reqs = [id \in QueryIds |-> IdleReq]
  /\ queries = <<>>
  /\ statusEvents = [id \in QueryIds \cup DocIds |-> <<>>]
  /\ listeners = <<>>
  /\ streams = [s \in StreamIds |-> IdleStream]
  /\ lastEmit = NoEmit

\* History of use, kept from what the clients see: a set uses its key, and
\* so does a get that returns a result; a get that returns null, a delete
\* and a clear leave the key unused; a set of a new key at capacity takes
\* the place of the key unused for longest.
Without(order, k) == SelectSeq(order, LAMBDA x : x # k)

UsedBySet(order, k) ==
  IF \E i \in 1..Len(order) : order[i] = k THEN Append(Without(order, k), k)
  ELSE IF Len(order) >= MaxSize THEN Append(Tail(order), k)
  ELSE Append(order, k)

UsedByGet(order, k, ret) ==
  IF ret = <<>> THEN Without(order, k)
  ELSE Append(Without(order, k), k)

CacheInit ==
  /\ cache = <<>>
  /\ now = 0
  /\ lastOp = NoOp
  /\ lastSet = <<>>
  /\ useOrder = <<>>
  /\ GenIdle
  /\ IngIdle

SetCall ==
  \E q \in Queries, o \in OptionSets, r \in Results :
    /\ cache' = QueryCache_set(cache, q, r, o, now)
    /\ lastOp' = [NoOp EXCEPT !.op = "set", !.q = q, !.o = o,
                              !.atCapacity = /\ Len(cache) >= MaxSize
                                             /\ IndexOfKey(cache, generateKey(q, o)) = 0]
    /\ lastSet' = StillSet(<<[q |-> q, o |-> o, r |-> r]>>, cache', now)
    /\ useOrder' = UsedBySet(useOrder, generateKey(q, o))
    /\ UNCHANGED <<sseVars, routeCall, retrievals, now, genVars, ingVars>>

GetCall ==
  \E q \in Queries, o \in OptionSets :
    LET got == QueryCache_get(cache, q, o, now)
    IN /\ cache' = got.cache
       /\ lastOp' = [NoOp EXCEPT !.op = "get", !.q = q, !.o = o, !.ret = got.ret]
       /\ lastSet' = StillSet(lastSet, cache', now)
       /\ useOrder' = UsedByGet(useOrder, generateKey(q, o), got.ret)
       /\ UNCHANGED <<sseVars, routeCall, retrievals, now, genVars, ingVars>>

DeleteCall ==
  \E q \in Queries, o \in OptionSets :
    LET del == QueryCache_delete(cache, q, o)
    IN /\ cache' = del.cache
       /\ lastOp' = [NoOp EXCEPT !.op = "delete", !.deleted = del.deleted]
       /\ lastSet' = StillSet(lastSet, cache', now)
       /\ useOrder' = Without(useOrder, generateKey(q, o))
       /\ UNCHANGED <<sseVars, routeCall, retrievals, now, genVars, ingVars>>

ClearCall ==
  /\ cache' = QueryCache_clear(cache)
  /\ lastOp' = [NoOp EXCEPT !.op = "clear", !.cleared = Len(cache)]
  /\ lastSet' = <<>>
  /\ useOrder' = <<>>
  /\ UNCHANGED <<sseVars, routeCall, retrievals, now, genVars, ingVars>>

CacheNext == SetCall \/ GetCall \/ DeleteCall \/ ClearCall

SpecCache == CacheInit /\ [][CacheNext]_vars

(***************************************************************************)
(* generateAnswer, cut at its suspension points (the awaits of             *)
(* retrieveDocuments, chain.invoke and the query-log write).  Each piece   *)
(* is an operator giving what the invocation does until it next suspends   *)
(* or finishes: the calls it makes, the cache it leaves, where it stands.  *)
(***************************************************************************)
\* Destructuring default `x = d`: d replaces an undefined property.
Default(v, d) == IF v.tag = "undef" THEN d ELSE v

Truthy(v) ==
  CASE v.tag = "undef" -> FALSE
    [] v.tag = "bool"  -> v.n = 1
    [] v.tag = "num"   -> v.n # 0
    [] v.tag = "str"   -> v.s # <<>>
    [] OTHER           -> TRUE

DefaultTopK == 5
\* Temperatures are counted in tenths: the default 0.7 is 7.
DefaultTemperatureTenths == 7
CitationPreviewLen == 200

topKOf(options)        == Default(options.topK, JNum(DefaultTopK))
temperatureOf(options) == Default(options.temperature, JNum(DefaultTemperatureTenths))
useCacheOf(options)    == Truthy(Default(options.useCache, JBool(TRUE)))

\* const cacheKey = { topK, temperature, maxTokens, filter }
cacheKeyOf(options) ==
  WithOptions(<< <<"topK", topKOf(options)>>,
                 <<"temperature", temperatureOf(options)>>,
                 <<"maxTokens", options.maxTokens>>,
                 <<"filter", options.filter>> >>)

\* retrievalOptions: topK, and the filter only when it is a non-empty object.
retrievalOptionsOf(options) ==
  << <<"topK", topKOf(options)>> >> \o
  (IF options.filter.tag = "obj" /\ Len(options.filter.o) > 0
   THEN << <<"filter", options.filter>> >> ELSE <<>>)

ApologyAnswer == "I encountered an error while searching the knowledge base. Please try again or rephrase your question."
NoInformationAnswer == "I couldn't find any relevant information in the knowledge base to answer your question."

\* A text is named by its source text and its length: substring(0, n) of it
\* is the same source text cut to at most n characters.
substring0(content, n) ==
  [content EXCEPT !.len = IF content.len < n THEN content.len ELSE n]

\* The citations with the whole content of each chunk.
citationsOf_FullContent(docs) ==
  [i \in 1..Len(docs) |->
     [source |-> docs[i].source, page |-> docs[i].page,
      chunkIndex |-> docs[i].chunkIndex, content |-> docs[i].pageContent]]

citationsOf(docs) ==
  [i \in 1..Len(docs) |->
     [source |-> docs[i].source, page |-> docs[i].page,
      chunkIndex |-> docs[i].chunkIndex,
      content |-> substring0(docs[i].pageContent, CitationPreviewLen)]]

\* Array.from(new Set(sources)): each source once, in order of first appearance.
RECURSIVE uniqueInOrder(_, _)
uniqueInOrder(xs, seen) ==
  IF xs = <<>> THEN <<>>
  ELSE IF Head(xs) \in seen THEN uniqueInOrder(Tail(xs), seen)
       ELSE <<Head(xs)>> \o uniqueInOrder(Tail(xs), seen \cup {Head(xs)})

sourcesOf(docs) == uniqueInOrder([i \in 1..Len(docs) |-> docs[i].source], {})

\* Entry of generateAnswer without the cache lookup.
generateAnswer_entry_NoLookup(c, question, options, t) ==
  [cache |-> c,
   calls |-> <<EmitStatus("retrieving", 20),
               Call("retrieveDocuments", retrievalOptionsOf(options))>>,
   pc |-> "retrieving", outcome |-> "none", result |-> <<>>]

\* From entry up to the await of retrieveDocuments, or the return of a
\* cached result.
generateAnswer_entry(c, question, options, t) ==
  LET useCache == useCacheOf(options)
      got == QueryCache_get(c, question, cacheKeyOf(options), t)
      lookup == IF useCache
                THEN <<Call("queryCache.get", cacheKeyOf(options).pairs)>>
                ELSE <<>>
  IN IF useCache /\ got.ret # <<>>
     THEN [cache |-> got.cache,
           calls |-> lookup \o <<EmitStatus("cached", 100)>>,
           pc |-> "done", outcome |-> "returned", result |-> got.ret]
     ELSE [cache |-> IF useCache THEN got.cache ELSE c,
           calls |-> lookup \o
                     <<EmitStatus("retrieving", 20),
                       Call("retrieveDocuments", retrievalOptionsOf(options))>>,
           pc |-> "retrieving", outcome |-> "none", result |-> <<>>]

\* After retrieveDocuments with the inner catch left out: the retrieval
\* error reaches the outer catch and is rethrown.
generateAnswer_afterRetrieval_NoCatch(retrieval) ==
  IF ~retrieval.ok
  THEN [calls |-> <<>>, pc |-> "done", outcome |-> "threw", result |-> <<>>,
        error |-> retrieval.error]
  ELSE IF Len(retrieval.docs) = 0
  THEN [calls |-> <<EmitStatus("no_results", 0)>>,
        pc |-> "done", outcome |-> "returned",
        result |-> <<[answer |-> NoInformationAnswer, citations |-> <<>>,
                      sources |-> <<>>]>>,
        error |-> ""]
  ELSE [calls |-> <<EmitStatus("generating", 50),
                    EmitStatus("llm_processing", 70),
                    Call("chain.invoke", <<>>)>>,
        pc |-> "llm", outcome |-> "none", result |-> <<>>, error |-> ""]

\* After retrieveDocuments with the zero-chunk return left out.
generateAnswer_afterRetrieval_NoEmptyCheck(retrieval) ==
  IF ~retrieval.ok
  THEN [calls |-> <<EmitStatus("error", 0)>>,
        pc |-> "done", outcome |-> "returned",
        result |-> <<[answer |-> ApologyAnswer, citations |-> <<>>,
                      sources |-> <<>>]>>,
        error |-> ""]
  ELSE [calls |-> <<EmitStatus("generating", 50),
                    EmitStatus("llm_processing", 70),
                    Call("chain.invoke", <<>>)>>,
        pc |-> "llm", outcome |-> "none", result |-> <<>>, error |-> ""]

\* From the settling of retrieveDocuments up to the await of chain.invoke,
\* or the return of a fixed answer.
generateAnswer_afterRetrieval(retrieval) ==
  IF ~retrieval.ok
  THEN [calls |-> <<EmitStatus("error", 0)>>,
        pc |-> "done", outcome |-> "returned",
        result |-> <<[answer |-> ApologyAnswer, citations |-> <<>>,
                      sources |-> <<>>]>>,
        error |-> ""]
  ELSE IF Len(retrieval.docs) = 0
  THEN [calls |-> <<EmitStatus("no_results", 0)>>,
        pc |-> "done", outcome |-> "returned",
        result |-> <<[answer |-> NoInformationAnswer, citations |-> <<>>,
                      sources |-> <<>>]>>,
        error |-> ""]
  ELSE [calls |-> <<EmitStatus("generating", 50),
                    EmitStatus("llm_processing", 70),
                    Call("chain.invoke", <<>>)>>,
        pc |-> "llm", outcome |-> "none", result |-> <<>>, error |-> ""]

\* After chain.invoke with completed emitted after the cache write instead
\* of before it.
generateAnswer_afterModel_LateCompleted(c, question, options, docs, model, t) ==
  IF ~model.ok
  THEN [cache |-> c, calls |-> <<>>, pc |-> "done", outcome |-> "threw",
        result |-> <<>>, error |-> model.error]
  ELSE LET result == [answer |-> model.answer, citations |-> citationsOf(docs),
                      sources |-> sourcesOf(docs)]
           useCache == useCacheOf(options)
       IN [cache |-> IF useCache
                     THEN QueryCache_set(c, question, result, cacheKeyOf(options), t)
                     ELSE c,
           calls |-> (IF useCache
                      THEN <<Call("queryCache.set", cacheKeyOf(options).pairs)>>
                      ELSE <<>>) \o
                     <<EmitStatus("completed", 100), Call("getDatabase", <<>>)>>,
           pc |-> "logging", outcome |-> "none", result |-> <<result>>,
           error |-> ""]

\* After chain.invoke with the cache written whatever useCache says.
generateAnswer_afterModel_AlwaysCache(c, question, options, docs, model, t) ==
  IF ~model.ok
  THEN [cache |-> c, calls |-> <<>>, pc |-> "done", outcome |-> "threw",
        result |-> <<>>, error |-> model.error]
  ELSE LET result == [answer |-> model.answer, citations |-> citationsOf(docs),
                      sources |-> sourcesOf(docs)]
       IN [cache |-> QueryCache_set(c, question, result, cacheKeyOf(options), t),
           calls |-> <<EmitStatus("completed", 100),
                       Call("queryCache.set", cacheKeyOf(options).pairs),
                       Call("getDatabase", <<>>)>>,
           pc |-> "logging", outcome |-> "none", result |-> <<result>>,
           error |-> ""]

\* After chain.invoke with a catch that stores and returns the apology
\* instead of rethrowing.
generateAnswer_afterModel_Fallback(c, question, options, docs, model, t) ==
  LET result == IF model.ok
                THEN [answer |-> model.answer, citations |-> citationsOf(docs),
                      sources |-> sourcesOf(docs)]
                ELSE [answer |-> ApologyAnswer, citations |-> <<>>, sources |-> <<>>]
      useCache == useCacheOf(options)
  IN [cache |-> IF useCache
                THEN QueryCache_set(c, question, result, cacheKeyOf(options), t)
                ELSE c,
      calls |-> <<EmitStatus("completed", 100)>> \o
                (IF useCache
                 THEN <<Call("queryCache.set", cacheKeyOf(options).pairs)>>
                 ELSE <<>>) \o
                <<Call("getDatabase", <<>>)>>,
      pc |-> "logging", outcome |-> "none", result |-> <<result>>, error |-> ""]

\* From the settling of chain.invoke up to the await of the query-log
\* write, or the rethrow of the model's error by the outer catch.
generateAnswer_afterModel(c, question, options, docs, model, t) ==
  IF ~model.ok
  THEN [cache |-> c, calls |-> <<>>, pc |-> "done", outcome |-> "threw",
        result |-> <<>>, error |-> model.error]
  ELSE LET result == [answer |-> model.answer, citations |-> citationsOf(docs),
                      sources |-> sourcesOf(docs)]
           useCache == useCacheOf(options)
       IN [cache |-> IF useCache
                     THEN QueryCache_set(c, question, result, cacheKeyOf(options), t)
                     ELSE c,
           calls |-> <<EmitStatus("completed", 100)>> \o
                     (IF useCache
                      THEN <<Call("queryCache.set", cacheKeyOf(options).pairs)>>
                      ELSE <<>>) \o
                     <<Call("getDatabase", <<>>)>>,
           pc |-> "logging", outcome |-> "none", result |-> <<result>>,
           error |-> ""]

\* The query-log write with its failure rethrown instead of swallowed.
generateAnswer_afterLog_Rethrow(logged) ==
  [calls |-> IF logged THEN <<Call("queries.insert", <<>>)>>
             ELSE <<Call("logger.warn", <<>>)>>,
   pc |-> "done", outcome |-> IF logged THEN "returned" ELSE "threw"]

\* The query-log write (step 8): a failure is logged and swallowed.
generateAnswer_afterLog(logged) ==
  [calls |-> IF logged THEN <<Call("queries.insert", <<>>)>>
             ELSE <<Call("logger.warn", <<>>)>>,
   pc |-> "done", outcome |-> "returned"]

\* StatusTracker.emitStatus: events.set(event.id, statusEvent), for the
\* emits among `calls`, in order.
RECURSIVE emitStatusAll(_, _)
emitStatusAll(current, calls) ==
  IF calls = <<>> THEN current
  ELSE emitStatusAll(IF Head(calls).call = "emitStatus"
                     THEN <<[status |-> Head(calls).status,
                             progress |-> Head(calls).progress]>>
                     ELSE current,
                     Tail(calls))

(***************************************************************************)
(* The environment of generateAnswer: callers, the retrieval layer, the    *)
(* model and the database.                                                 *)
(***************************************************************************)
GenQuestions == {<<"a">>, <<"A">>}

GenOptionSets ==
  [topK : {JUndef, JNum(3)}, temperature : {JUndef}, maxTokens : {JUndef},
   filter : {JUndef}, useCache : {JUndef, JBool(TRUE), JBool(FALSE)}]

Doc1 == [pageContent |-> [text |-> "t1", len |-> 250], source |-> "a.txt",
         page |-> <<1>>, chunkIndex |-> 0, documentId |-> "d1"]
Doc2 == [pageContent |-> [text |-> "t2", len |-> 50], source |-> "a.txt",
         page |-> <<>>, chunkIndex |-> 1, documentId |-> "d1"]
Doc3 == [pageContent |-> [text |-> "t3", len |-> 200], source |-> "b.md",
         page |-> <<>>, chunkIndex |-> 0, documentId |-> "d2"]

RetrievalOutcomes ==
  { [ok |-> FALSE, docs |-> <<>>, error |-> "RetrievalError"],
    [ok |-> TRUE, docs |-> <<>>, error |-> ""],
    [ok |-> TRUE, docs |-> <<Doc1, Doc3, Doc2>>, error |-> ""] }

ModelOutcomes ==
  { [ok |-> TRUE, answer |-> "answer", error |-> ""],
    [ok |-> FALSE, answer |-> "", error |-> "ModelError"],
    [ok |-> FALSE, answer |-> "", error |-> "ModelTimeout"] }

\* History: the result of the live (unexpired) entry the cache holds for the
\* request's key, if any.
LiveEntry(c, question, options, t) ==
  LET k == generateKey(question, cacheKeyOf(options))
      hits == {i \in 1..Len(c) : c[i].key = k /\ ~isStale(c[i], t)}
  IN IF hits = {} THEN <<>> ELSE <<c[CHOOSE i \in hits : TRUE].value.result>>

GenInit ==
  /\ cache = <<>>
  /\ now = 0
  /\ lastOp = NoOp
  /\ lastSet = <<>>
  /\ useOrder = <<>>
  /\ GenIdle
  /\ IngIdle

GenStart(id) ==
  \E question \in GenQuestions, options \in GenOptionSets :
    LET step == generateAnswer_entry(cache, question, options, now)
    IN /\ reqs[id].pc = "idle"
       /\ cache' = step.cache
       /\ reqs' = [reqs EXCEPT ![id] =
            [@ EXCEPT !.pc = step.pc, !.question = question, !.options = options,
                      !.calls = step.calls, !.outcome = step.outcome,
                      !.result = step.result,
                      !.liveAtStart = LiveEntry(cache, question, options, now)]]
       /\ statusEvents' = [statusEvents EXCEPT ![id] = emitStatusAll(@, step.calls)]
       /\ UNCHANGED <<sseVars, routeCall, retrievals, now, queries, cacheHist, ingVars>>

GenRetrievalSettles(id) ==
  \E retrieval \in RetrievalOutcomes :
    LET step == generateAnswer_afterRetrieval(retrieval)
    IN /\ reqs[id].pc = "retrieving"
       /\ reqs' = [reqs EXCEPT ![id] =
            [@ EXCEPT !.pc = step.pc, !.calls = @ \o step.calls,
                      !.outcome = step.outcome, !.result = step.result,
                      !.error = step.error, !.retrieval = retrieval]]
       /\ statusEvents' = [statusEvents EXCEPT ![id] = emitStatusAll(@, step.calls)]
       /\ UNCHANGED <<sseVars, routeCall, retrievals, cache, now, queries, cacheHist, ingVars>>

GenModelSettles(id) ==
  \E model \in ModelOutcomes :
    LET r == reqs[id]
        step == generateAnswer_afterModel(cache, r.question, r.options,
                                          r.retrieval.docs, model, now)
    IN /\ r.pc = "llm"
       /\ cache' = step.cache
       /\ reqs' = [reqs EXCEPT ![id] =
            [@ EXCEPT !.pc = step.pc, !.calls = @ \o step.calls,
                      !.outcome = step.outcome, !.result = step.result,
                      !.error = step.error, !.modelError = model.error]]
       /\ statusEvents' = [statusEvents EXCEPT ![id] = emitStatusAll(@, step.calls)]
       /\ UNCHANGED <<sseVars, routeCall, retrievals, now, queries, cacheHist, ingVars>>

GenLogSettles(id) ==
  \E logged \in BOOLEAN :
    LET step == generateAnswer_afterLog(logged)
    IN /\ reqs[id].pc = "logging"
       /\ reqs' = [reqs EXCEPT ![id] =
            [@ EXCEPT !.pc = step.pc, !.calls = @ \o step.calls,
                      !.outcome = step.outcome]]
       /\ queries' = IF logged
                     THEN Append(queries, [query_text |-> reqs[id].question])
                     ELSE queries
       /\ UNCHANGED <<sseVars, routeCall, retrievals, cache, now, statusEvents, cacheHist, ingVars>>

Tick ==
  /\ now < MaxTime
  /\ now' = now + 1
  /\ UNCHANGED <<sseVars, routeCall, retrievals, cache, cacheHist, genVars, ingVars>>

GenNext ==
  \/ \E id \in QueryIds :
       \/ GenStart(id)
       \/ GenRetrievalSettles(id)
       \/ GenModelSettles(id)
       \/ GenLogSettles(id)
  \/ Tick

SpecGen == GenInit /\ [][GenNext]_vars

(***************************************************************************)
(* Clients of the QueryCache over a running clock, with the queries,       *)
(* option sets and results given.                                          *)
(***************************************************************************)
SetAmong(Qs, Os, Rs) ==
  \E q \in Qs, o \in Os, r \in Rs :
    /\ cache' = QueryCache_set(cache, q, r, o, now)
    /\ lastOp' = [NoOp EXCEPT !.op = "set", !.q = q, !.o = o, !.at = now,
                              !.atCapacity = /\ Len(cache) >= MaxSize
                                             /\ IndexOfKey(cache, generateKey(q, o)) = 0]
    /\ lastSet' = StillSet(<<[q |-> q, o |-> o, r |-> r]>>, cache', now)
    /\ useOrder' = UsedBySet(useOrder, generateKey(q, o))
    /\ UNCHANGED <<sseVars, routeCall, retrievals, now, genVars, ingVars>>

GetAmong(Qs, Os) ==
  \E q \in Qs, o \in Os :
    LET got == QueryCache_get(cache, q, o, now)
    IN /\ cache' = got.cache
       /\ lastOp' = [NoOp EXCEPT !.op = "get", !.q = q, !.o = o, !.at = now,
                                 !.ret = got.ret]
       /\ lastSet' = StillSet(lastSet, cache', now)
       /\ useOrder' = UsedByGet(useOrder, generateKey(q, o), got.ret)
       /\ UNCHANGED <<sseVars, routeCall, retrievals, now, genVars, ingVars>>

TimedQueries == {<<"a">>, <<"b">>, <<"c">>}

CacheTimeNext ==
  \/ SetAmong(TimedQueries, {NoOptions}, Results)
  \/ GetAmong(TimedQueries, {NoOptions})
  \/ Tick

SpecCacheTime == CacheInit /\ [][CacheTimeNext]_vars

(***************************************************************************)
(* Clients that pass the same options with their keys listed in different  *)
(* orders, at top level and inside the filter.                             *)
(***************************************************************************)
OrderedOptionSets ==
  { WithOptions(<< <<"topK", JNum(5)>>, <<"temperature", JNum(7)>> >>),
    WithOptions(<< <<"temperature", JNum(7)>>, <<"topK", JNum(5)>> >>),
    WithOptions(<< <<"filter", JObj(<< <<"source", JStr(<<"a">>)>>,
                                       <<"page", JNum(1)>> >>)>> >>),
    WithOptions(<< <<"filter", JObj(<< <<"page", JNum(1)>>,
                                       <<"source", JStr(<<"a">>)>> >>)>> >>) }

CacheKeysNext ==
  \/ SetAmong({<<"a">>}, OrderedOptionSets, Results)
  \/ GetAmong({<<"a">>}, OrderedOptionSets)

SpecCacheKeys == CacheInit /\ [][CacheKeysNext]_vars

(***************************************************************************)
(* The relational store (documents and chunks tables, foreign keys on,     *)
(* chunks.document_id ON DELETE CASCADE) and the Chroma collection.        *)
(***************************************************************************)
MaxChunks == 2

\* database.ts getDatabase: the open connection is returned as it is; with
\* none open the database is opened and migrated, which succeeds or throws.
getDatabase(db, opens) ==
  IF db = "open" \/ opens THEN [dbInstance |-> "open", ok |-> TRUE]
  ELSE [dbInstance |-> "null", ok |-> FALSE]

\* UPDATE documents SET status = ? WHERE id = ?  (no row: nothing changes)
UpdateStatus(docs, d, status) ==
  IF docs[d].status = "none" THEN docs ELSE [docs EXCEPT ![d].status = status]

\* UPDATE documents SET filepath = ? WHERE id = ?
UpdateFilepath(docs, d, filepath) ==
  IF docs[d].status = "none" THEN docs ELSE [docs EXCEPT ![d].filepath = filepath]

\* The metadata the splitter hands back with every chunk: the parser's
\* metadata and the chunk's place in the text.
SplitterMetadata ==
  << <<"fileType", JStr(<<"text">>)>>, <<"loc", JObj(<<>>)>> >>

\* { source: document.filename, chunkIndex: index, documentId,
\*   ...chunk.metadata }
chunkMetadata(d, k, filename) ==
  ObjectSpread(<< <<"source", JStr(filename)>>, <<"chunkIndex", JNum(k)>>,
                  <<"documentId", JStr(d)>> >>, SplitterMetadata)

\* chunkDocument numbering every chunk 0.
chunkDocument_NoIndex(d, n, filename) ==
  { LET metadata == chunkMetadata(d, 0, filename)
    IN [id |-> <<"generateId", d, k>>,
        document_id |-> PropertyOf(metadata, "documentId").s,
        chunk_index |-> PropertyOf(metadata, "chunkIndex").n,
        source |-> PropertyOf(metadata, "source").s] :
      k \in 0..(n - 1) }

\* chunkDocument: chunk k of document d gets its id from generateId() and
\* its metadata from chunkMetadata; the fields are the ones the chunk row
\* and the vector record are later given.
chunkDocument(d, n, filename) ==
  { LET metadata == chunkMetadata(d, k, filename)
    IN [id |-> <<"generateId", d, k>>,
        document_id |-> PropertyOf(metadata, "documentId").s,
        chunk_index |-> PropertyOf(metadata, "chunkIndex").n,
        source |-> PropertyOf(metadata, "source").s] :
      k \in 0..(n - 1) }

\* Chroma addDocuments(documents), called without ids: the store draws a
\* fresh id of its own for every record; the record keeps the chunk's
\* metadata.
addDocumentsToVectorStore(vecs, docChunks) ==
  vecs \cup { [id |-> <<"chroma", c.document_id, c.chunk_index>>,
               documentId |-> c.document_id, chunkIndex |-> c.chunk_index,
               source |-> c.source] :
              c \in docChunks }

\* Chroma delete({ ids }): the records whose id is among ids go.
deleteDocumentsFromVectorStore(vecs, ids) == {v \in vecs : v.id \notin ids}

\* similaritySearch with topK at least the size of the collection: every
\* record comes back, as the chunk metadata retrieval hands on.
similaritySearch(vecs) ==
  { [documentId |-> v.documentId, chunkIndex |-> v.chunkIndex] : v \in vecs }

\* The file names of the uploads.
Filenames == {"REPORT.PDF", "data.xyz"}

\* path.extname(filename)
extname(filename) ==
  CASE filename = "REPORT.PDF" -> ".PDF"
    [] filename = "data.xyz"   -> ".xyz"
    [] OTHER                   -> ""

\* String.prototype.toLowerCase on an extension
extensionToLowerCase(extension) ==
  CASE extension = ".PDF" -> ".pdf"
    [] OTHER              -> extension

\* The extensions parseDocument has a parser for.
SupportedExtensions == {".pdf", ".md", ".markdown", ".txt"}

\* parseDocument with every extension handed to the text parser.
parseDocument_AnyExtension(filename, readOk) ==
  IF ~readOk THEN [ok |-> FALSE, error |-> "Failed to parse"]
  ELSE [ok |-> TRUE, error |-> ""]

\* parseDocument: the parser is chosen by the lower-cased extension; any
\* other extension throws, and a parser throws when it cannot read or parse
\* the file.
parseDocument(filename, readOk) ==
  LET extension == extensionToLowerCase(extname(filename))
  IN IF extension \notin SupportedExtensions
     THEN [ok |-> FALSE, error |-> "Unsupported file type"]
     ELSE IF ~readOk THEN [ok |-> FALSE, error |-> "Failed to parse"]
     ELSE [ok |-> TRUE, error |-> ""]

(***************************************************************************)
(* ingestDocument, cut at its awaits (getDatabase, parseDocument,          *)
(* chunkDocument, addDocumentsToVectorStore).  Each operator gives the     *)
(* tables and the run's record when the run next suspends or finishes.     *)
(***************************************************************************)
\* The catch block with a status reset to 'pending' instead of 'failed'.
ingestDocument_catch_Reset(docs, d, failure, catchUpdateOk) ==
  IF catchUpdateOk
  THEN [documents |-> UpdateStatus(docs, d, "pending"),
        run |-> [IdleIngest EXCEPT !.pc = "done", !.outcome = "resolved",
                                   !.status = "failed", !.error = failure,
                                   !.failure = failure,
                                   !.statusAtReturn =
                                     UpdateStatus(docs, d, "pending")[d].status]]
  ELSE [documents |-> docs,
        run |-> [IdleIngest EXCEPT !.pc = "done", !.outcome = "rejected",
                                   !.error = "updateFailed", !.failure = failure,
                                   !.statusAtReturn = docs[d].status]]

\* The catch block: UPDATE ... 'failed', then the failed result; when that
\* update throws, the run rejects with its error.
ingestDocument_catch(docs, d, failure, catchUpdateOk) ==
  IF catchUpdateOk
  THEN [documents |-> UpdateStatus(docs, d, "failed"),
        run |-> [IdleIngest EXCEPT !.pc = "done", !.outcome = "resolved",
                                   !.status = "failed", !.error = failure,
                                   !.failure = failure,
                                   !.statusAtReturn =
                                     UpdateStatus(docs, d, "failed")[d].status]]
  ELSE [documents |-> docs,
        run |-> [IdleIngest EXCEPT !.pc = "done", !.outcome = "rejected",
                                   !.error = "updateFailed", !.failure = failure,
                                   !.statusAtReturn = docs[d].status]]

\* From the settling of getDatabase (outside the try) up to the await of
\* parseDocument.
ingestDocument_afterGetDatabase(docs, d, dbOk, updateOk, catchUpdateOk) ==
  IF ~dbOk
  THEN [documents |-> docs,
        run |-> [IdleIngest EXCEPT !.pc = "done", !.outcome = "rejected",
                                   !.error = "getDatabase",
                                   !.failure = "getDatabase",
                                   !.statusAtReturn = docs[d].status]]
  ELSE IF ~updateOk
  THEN ingestDocument_catch(docs, d, "updateProcessing", catchUpdateOk)
  ELSE [documents |-> UpdateStatus(docs, d, "processing"),
        run |-> [IdleIngest EXCEPT !.pc = "parseDocument"]]

\* From the settling of parseDocument up to the await of chunkDocument.
ingestDocument_afterParse(docs, d, parsed, catchUpdateOk) ==
  IF ~parsed.ok
  THEN ingestDocument_catch(docs, d, parsed.error, catchUpdateOk)
  ELSE [documents |-> docs, run |-> [IdleIngest EXCEPT !.pc = "chunkDocument"]]

\* From the settling of chunkDocument, over the chunk-insert transaction,
\* up to the await of addDocumentsToVectorStore.  The insert throws on a
\* database error or when the document row is gone (foreign key), and then
\* inserts nothing.
ingestDocument_afterChunk(docs, chs, d, filename, chunkOk, n, insertOk, catchUpdateOk) ==
  LET failure == IF ~chunkOk THEN "chunkDocument"
                 ELSE IF n = 0 THEN "No chunks created from document"
                 ELSE IF ~insertOk \/ docs[d].status = "none" THEN "insertChunks"
                 ELSE ""
  IN IF failure # ""
     THEN [chunks |-> chs] @@ ingestDocument_catch(docs, d, failure, catchUpdateOk)
     ELSE [chunks |-> chs \cup chunkDocument(d, n, filename), documents |-> docs,
           run |-> [IdleIngest EXCEPT !.pc = "addDocumentsToVectorStore",
                                      !.n = n]]

\* From the settling of addDocumentsToVectorStore to the return.
ingestDocument_afterUpsert(docs, vecs, d, filename, n, upsertOk, updateOk, catchUpdateOk) ==
  IF ~upsertOk
  THEN [vectors |-> vecs] @@
       ingestDocument_catch(docs, d, "addDocumentsToVectorStore", catchUpdateOk)
  ELSE IF ~updateOk
  THEN [vectors |-> addDocumentsToVectorStore(vecs, chunkDocument(d, n, filename))] @@
       ingestDocument_catch(docs, d, "updateProcessed", catchUpdateOk)
  ELSE [vectors |-> addDocumentsToVectorStore(vecs, chunkDocument(d, n, filename)),
        documents |-> UpdateStatus(docs, d, "processed"),
        run |-> [IdleIngest EXCEPT !.pc = "done", !.outcome = "resolved",
                                   !.status = "success", !.chunksCreated = n,
                                   !.n = n,
                                   !.statusAtReturn =
                                     UpdateStatus(docs, d, "processed")[d].status]]

(***************************************************************************)
(* deleteDocument, cut at its awaits (getDatabase and                      *)
(* deleteDocumentsFromVectorStore).                                        *)
(***************************************************************************)
\* DELETE FROM documents WHERE id = ?, the chunk rows going with the row
\* (ON DELETE CASCADE); a throw is rethrown as DatabaseError.
deleteDocument_deleteRow(docs, chs, d, chunkIds, deleteOk) ==
  IF deleteOk
  THEN [documents |-> [docs EXCEPT ![d] = NoRow],
        chunks |-> {c \in chs : c.document_id # d},
        call |-> [pc |-> "done", chunkIds |-> chunkIds, outcome |-> "resolved",
                  error |-> "",
                  vectorDelete |-> IF chunkIds = {} THEN "none" ELSE "succeeded"]]
  ELSE [documents |-> docs, chunks |-> chs,
        call |-> [pc |-> "done", chunkIds |-> chunkIds, outcome |-> "rejected",
                  error |-> "DatabaseError",
                  vectorDelete |-> IF chunkIds = {} THEN "none" ELSE "succeeded"]]

\* From the settling of getDatabase (outside the try), over the SELECT of
\* the chunk ids, up to the await of deleteDocumentsFromVectorStore, or with
\* no chunk rows straight to the row's deletion.
deleteDocument_afterGetDatabase(docs, chs, d, dbOk, deleteOk) ==
  LET chunkIds == {c.id : c \in {x \in chs : x.document_id = d}}
  IN IF ~dbOk
     THEN [documents |-> docs, chunks |-> chs,
           call |-> [pc |-> "done", chunkIds |-> {}, outcome |-> "rejected",
                     error |-> "getDatabase", vectorDelete |-> "none"]]
     ELSE IF chunkIds # {}
     THEN [documents |-> docs, chunks |-> chs,
           call |-> [pc |-> "deleteDocumentsFromVectorStore",
                     chunkIds |-> chunkIds, outcome |-> "none", error |-> "",
                     vectorDelete |-> "none"]]
     ELSE deleteDocument_deleteRow(docs, chs, d, chunkIds, deleteOk)

\* deleteDocument going on to the row's deletion whether or not the vector
\* deletion succeeded.
deleteDocument_afterVectorDelete_IgnoreFailure(docs, chs, vecs, d, chunkIds, vectorOk, deleteOk) ==
  LET rows == deleteDocument_deleteRow(docs, chs, d, chunkIds, deleteOk)
  IN IF ~vectorOk
     THEN [vectors |-> vecs, documents |-> rows.documents, chunks |-> rows.chunks,
           call |-> [rows.call EXCEPT !.vectorDelete = "failed"]]
     ELSE [vectors |-> deleteDocumentsFromVectorStore(vecs, chunkIds)] @@ rows

\* From the settling of deleteDocumentsFromVectorStore(chunkIds) to the end.
deleteDocument_afterVectorDelete(docs, chs, vecs, d, chunkIds, vectorOk, deleteOk) ==
  IF ~vectorOk
  THEN [vectors |-> vecs, documents |-> docs, chunks |-> chs,
        call |-> [pc |-> "done", chunkIds |-> chunkIds, outcome |-> "rejected",
                  error |-> "DatabaseError", vectorDelete |-> "failed"]]
  ELSE [vectors |-> deleteDocumentsFromVectorStore(vecs, chunkIds)] @@
       deleteDocument_deleteRow(docs, chs, d, chunkIds, deleteOk)

(***************************************************************************)
(* createDocumentRecord and the upload handler.                            *)
(***************************************************************************)
\* createDocumentRecord: getDatabase, then INSERT the row with status
\* 'pending' and the empty filepath the handler passes.
createDocumentRecord(db, docs, d, opens, insertOk) ==
  LET got == getDatabase(db, opens)
  IN IF got.ok /\ insertOk
     THEN [dbInstance |-> got.dbInstance, ok |-> TRUE,
           documents |-> [docs EXCEPT ![d] = [status |-> "pending",
                                              filepath |-> ""]]]
     ELSE [dbInstance |-> got.dbInstance, ok |-> FALSE, documents |-> docs]

\* POST /api/documents/upload: the request is validated; an invalid one
\* fails before anything is written.
UploadCall(d) ==
  \E valid \in BOOLEAN :
    /\ uploads[d] = "idle"
    /\ ingests[d].pc = "idle"
    /\ uploads' = [uploads EXCEPT ![d] = IF valid THEN "createDocumentRecord"
                                         ELSE "failed"]
    /\ UNCHANGED <<sseVars, routeCall, retrievals, cache, now, cacheHist, genVars, dbInstance, documents, chunks,
                   vectors, ingests, deletes, retrieved>>

\* createDocumentRecord settles: the handler emits uploaded(5) and awaits
\* saveFile.
UploadRecordSettles(d) ==
  \E opens \in BOOLEAN, insertOk \in BOOLEAN :
    LET rec == createDocumentRecord(dbInstance, documents, d, opens, insertOk)
    IN /\ uploads[d] = "createDocumentRecord"
       /\ dbInstance' = rec.dbInstance
       /\ documents' = rec.documents
       /\ uploads' = [uploads EXCEPT ![d] = IF rec.ok THEN "saveFile" ELSE "failed"]
       /\ statusEvents' =
            IF rec.ok
            THEN [statusEvents EXCEPT ![d] =
                    emitStatusAll(@, <<EmitStatus("uploaded", 5)>>)]
            ELSE statusEvents
       /\ UNCHANGED <<sseVars, routeCall, retrievals, cache, now, cacheHist, reqs, queries, chunks, vectors,
                      ingests, deletes, retrieved>>

\* saveFile settles: the handler awaits getDatabase, or fails.
UploadSaveSettles(d) ==
  \E saved \in BOOLEAN :
    /\ uploads[d] = "saveFile"
    /\ uploads' = [uploads EXCEPT ![d] = IF saved THEN "getDatabase" ELSE "failed"]
    /\ UNCHANGED <<sseVars, routeCall, retrievals, cache, now, cacheHist, genVars, dbInstance, documents, chunks,
                   vectors, ingests, deletes, retrieved>>

\* getDatabase settles: the handler records the filepath, starts the
\* detached ingestDocument and answers 202.
UploadFilepathSettles(d) ==
  \E opens \in BOOLEAN, updateOk \in BOOLEAN, filename \in Filenames :
    LET got == getDatabase(dbInstance, opens)
        ok == got.ok /\ updateOk
    IN /\ uploads[d] = "getDatabase"
       /\ dbInstance' = got.dbInstance
       /\ documents' = IF ok THEN UpdateFilepath(documents, d, "saved")
                       ELSE documents
       /\ ingests' = IF ok THEN [ingests EXCEPT ![d].pc = "getDatabase",
                                                 ![d].filename = filename]
                     ELSE ingests
       /\ uploads' = [uploads EXCEPT ![d] = IF ok THEN "acked" ELSE "failed"]
       /\ UNCHANGED <<sseVars, routeCall, retrievals, cache, now, cacheHist, genVars, chunks, vectors, deletes,
                      retrieved>>

(***************************************************************************)
(* The runs of ingestDocument and deleteDocument.                          *)
(***************************************************************************)
\* ingestDocument called by a script or a test, for an id the upload handler
\* has not created.
IngestDirectCall(d) ==
  /\ uploads[d] = "idle"
  /\ ingests[d].pc = "idle"
  /\ \E filename \in Filenames :
       ingests' = [ingests EXCEPT ![d].pc = "getDatabase",
                                  ![d].filename = filename]
  /\ UNCHANGED <<sseVars, routeCall, retrievals, cache, now, cacheHist, genVars, dbInstance, documents, chunks,
                 vectors, uploads, deletes, retrieved>>

IngestGetDatabaseSettles(d) ==
  \E opens \in BOOLEAN, updateOk \in BOOLEAN, catchUpdateOk \in BOOLEAN :
    LET got == getDatabase(dbInstance, opens)
        step == ingestDocument_afterGetDatabase(documents, d, got.ok, updateOk,
                                                catchUpdateOk)
    IN /\ ingests[d].pc = "getDatabase"
       /\ dbInstance' = got.dbInstance
       /\ documents' = step.documents
       /\ ingests' = [ingests EXCEPT ![d] =
                        [step.run EXCEPT !.filename = ingests[d].filename]]
       /\ UNCHANGED <<sseVars, routeCall, retrievals, cache, now, cacheHist, genVars, chunks, vectors, uploads,
                      deletes, retrieved>>

IngestParseSettles(d) ==
  \E readOk \in BOOLEAN, catchUpdateOk \in BOOLEAN :
    LET step == ingestDocument_afterParse(documents, d,
                                          parseDocument(ingests[d].filename, readOk),
                                          catchUpdateOk)
    IN /\ ingests[d].pc = "parseDocument"
       /\ documents' = step.documents
       /\ ingests' = [ingests EXCEPT ![d] =
                        [step.run EXCEPT !.filename = ingests[d].filename]]
       /\ UNCHANGED <<sseVars, routeCall, retrievals, cache, now, cacheHist, genVars, dbInstance, chunks, vectors,
                      uploads, deletes, retrieved>>

IngestChunkSettles(d) ==
  \E chunkOk \in BOOLEAN, n \in 0..MaxChunks, insertOk \in BOOLEAN,
     catchUpdateOk \in BOOLEAN :
    LET step == ingestDocument_afterChunk(documents, chunks, d,
                                          ingests[d].filename, chunkOk, n,
                                          insertOk, catchUpdateOk)
    IN /\ ingests[d].pc = "chunkDocument"
       /\ documents' = step.documents
       /\ chunks' = step.chunks
       /\ ingests' = [ingests EXCEPT ![d] =
                        [step.run EXCEPT !.filename = ingests[d].filename]]
       /\ UNCHANGED <<sseVars, routeCall, retrievals, cache, now, cacheHist, genVars, dbInstance, vectors, uploads,
                      deletes, retrieved>>

IngestUpsertSettles(d) ==
  \E upsertOk \in BOOLEAN, updateOk \in BOOLEAN, catchUpdateOk \in BOOLEAN :
    LET step == ingestDocument_afterUpsert(documents, vectors, d,
                                           ingests[d].filename, ingests[d].n,
                                           upsertOk, updateOk, catchUpdateOk)
    IN /\ ingests[d].pc = "addDocumentsToVectorStore"
       /\ documents' = step.documents
       /\ vectors' = step.vectors
       /\ ingests' = [ingests EXCEPT ![d] =
                        [step.run EXCEPT !.filename = ingests[d].filename]]
       /\ UNCHANGED <<sseVars, routeCall, retrievals, cache, now, cacheHist, genVars, dbInstance, chunks, uploads,
                      deletes, retrieved>>

\* DELETE /api/documents/:id found the row (status statusAtCall) and calls
\* deleteDocument.
DeleteDocumentCall(d) ==
  /\ deletes[d].pc = "idle"
  /\ documents[d].status # "none"
  /\ deletes' = [deletes EXCEPT ![d].pc = "getDatabase",
                                ![d].statusAtCall = documents[d].status]
  /\ UNCHANGED <<sseVars, routeCall, retrievals, cache, now, cacheHist, genVars, dbInstance, documents, chunks,
                 vectors, uploads, ingests, retrieved>>

DeleteGetDatabaseSettles(d) ==
  \E opens \in BOOLEAN, deleteOk \in BOOLEAN :
    LET got == getDatabase(dbInstance, opens)
        step == deleteDocument_afterGetDatabase(documents, chunks, d, got.ok,
                                                deleteOk)
    IN /\ deletes[d].pc = "getDatabase"
       /\ dbInstance' = got.dbInstance
       /\ documents' = step.documents
       /\ chunks' = step.chunks
       /\ deletes' = [deletes EXCEPT ![d] =
                        step.call @@ [statusAtCall |-> @.statusAtCall]]
       /\ UNCHANGED <<sseVars, routeCall, retrievals, cache, now, cacheHist, genVars, vectors, uploads, ingests,
                      retrieved>>

DeleteVectorSettles(d) ==
  \E vectorOk \in BOOLEAN, deleteOk \in BOOLEAN :
    LET step == deleteDocument_afterVectorDelete(documents, chunks, vectors, d,
                                                 deletes[d].chunkIds, vectorOk,
                                                 deleteOk)
    IN /\ deletes[d].pc = "deleteDocumentsFromVectorStore"
       /\ documents' = step.documents
       /\ chunks' = step.chunks
       /\ vectors' = step.vectors
       /\ deletes' = [deletes EXCEPT ![d] =
                        step.call @@ [statusAtCall |-> @.statusAtCall]]
       /\ UNCHANGED <<sseVars, routeCall, retrievals, cache, now, cacheHist, genVars, dbInstance, uploads, ingests,
                      retrieved>>

\* A retrieval reads the collection.
Retrieve ==
  /\ retrieved' = similaritySearch(vectors)
  /\ UNCHANGED <<sseVars, routeCall, retrievals, cache, now, cacheHist, genVars, dbInstance, documents, chunks,
                 vectors, uploads, ingests, deletes>>

IngestInit ==
  /\ cache = <<>>
  /\ now = 0
  /\ lastOp = NoOp
  /\ lastSet = <<>>
  /\ useOrder = <<>>
  /\ GenIdle
  /\ IngIdle

IngestNext ==
  \/ \E d \in DocIds :
       \/ UploadCall(d)
       \/ UploadRecordSettles(d)
       \/ UploadSaveSettles(d)
       \/ UploadFilepathSettles(d)
       \/ IngestDirectCall(d)
       \/ IngestGetDatabaseSettles(d)
       \/ IngestParseSettles(d)
       \/ IngestChunkSettles(d)
       \/ IngestUpsertSettles(d)
       \/ DeleteDocumentCall(d)
       \/ DeleteGetDatabaseSettles(d)
       \/ DeleteVectorSettles(d)
  \/ Retrieve

SpecIngest == IngestInit /\ [][IngestNext]_vars

(***************************************************************************)
(* The upload handler and the ingestion runs it starts, on their own and   *)
(* with every pending promise settling in the end: a step that is waiting  *)
(* for a database call, a file write, a parser or the vector store is      *)
(* resumed by the event loop once that call settles.  Requests arrive when *)
(* clients send them, so UploadCall carries no such condition.             *)
(***************************************************************************)
UploadNext ==
  \E d \in DocIds :
    \/ UploadCall(d)
    \/ UploadRecordSettles(d)
    \/ UploadSaveSettles(d)
    \/ UploadFilepathSettles(d)
    \/ IngestGetDatabaseSettles(d)
    \/ IngestParseSettles(d)
    \/ IngestChunkSettles(d)
    \/ IngestUpsertSettles(d)

PromisesSettle ==
  \A d \in DocIds :
    /\ WF_vars(UploadRecordSettles(d))
    /\ WF_vars(UploadSaveSettles(d))
    /\ WF_vars(UploadFilepathSettles(d))
    /\ WF_vars(IngestGetDatabaseSettles(d))
    /\ WF_vars(IngestParseSettles(d))
    /\ WF_vars(IngestChunkSettles(d))
    /\ WF_vars(IngestUpsertSettles(d))

SpecUploadFair == IngestInit /\ [][UploadNext]_vars /\ PromisesSettle

(***************************************************************************)
(* retrieveDocuments.  Scores and minScore are counted in tenths: the      *)
(* default score 1.0 is 10.                                                *)
(***************************************************************************)
DefaultScoreTenths == 10
DefaultMinScore == 0

\* The collection as one query sees it, nearest first, each record with the
\* score a scored search reports for it.
IndexedDocs ==
  << [documentId |-> "d1", chunkIndex |-> 0, source |-> <<"a">>, score |-> 0],
     [documentId |-> "d1", chunkIndex |-> 1, source |-> <<"b">>, score |-> 3],
     [documentId |-> "d2", chunkIndex |-> 0, source |-> <<"a">>, score |-> 12] >>

FirstK(docs, k) == SubSeq(docs, 1, IF k < Len(docs) THEN k ELSE Len(docs))

\* A where-clause { source: ... } keeps the records of that source.
MatchesFilter(doc, filter) ==
  \A i \in 1..Len(filter.o) :
    filter.o[i][1] = "source" => JStr(doc.source) = filter.o[i][2]

\* store.similaritySearchWithScore(query, topK, filter), when it succeeds
similaritySearchWithScore(k, filter) ==
  FirstK(SelectSeq(IndexedDocs, LAMBDA doc : MatchesFilter(doc, filter)), k)

\* similaritySearch(query, k) and the retriever: the k nearest, no where-clause
similaritySearchTopK(k) == FirstK(IndexedDocs, k)

RetrievalOptionSets ==
  [topK : {JUndef, JNum(1), JNum(2)},
   filter : {JUndef, JObj(<<>>), JObj(<< <<"source", JStr(<<"a">>)>> >>),
             JArr(<<JStr(<<"a">>)>>)},
   minScore : {JUndef, JNum(5), JNum(10), JNum(15)}]

\* A query sent to the index, and how it settled.
IndexCall(name, k, filter) ==
  [call |-> name, k |-> k, filter |-> filter, settled |-> "pending"]

SettleLast(calls, ok) ==
  [calls EXCEPT ![Len(calls)].settled = IF ok THEN "ok" ELSE "failed"]

\* The filter check without the test for keys.
hasValidFilter_AnyObject(filter) == filter.tag = "obj"

\* filter && typeof filter === 'object' && !Array.isArray(filter) &&
\* Object.keys(filter).length > 0
hasValidFilter(filter) == filter.tag = "obj" /\ Len(filter.o) > 0

\* documents.map(...) with score: scores[index] || 1.0, then the minScore
\* filter.
filteredResults(docs, scores, minScore) ==
  LET results == [i \in 1..Len(docs) |->
                    [documentId |-> docs[i].documentId,
                     chunkIndex |-> docs[i].chunkIndex,
                     source |-> docs[i].source,
                     score |-> IF scores[i] = 0 THEN DefaultScoreTenths
                               ELSE scores[i]]]
  IN IF minScore > 0
     THEN SelectSeq(results, LAMBDA r : r.score >= minScore)
     ELSE results

DefaultScores(docs) == [i \in 1..Len(docs) |-> DefaultScoreTenths]

retrieveDocuments_return(run, docs, scores) ==
  [run EXCEPT !.pc = "done", !.outcome = "returned",
              !.results = filteredResults(docs, scores, run.minScore)]

\* The outer catch logs and rethrows.
retrieveDocuments_throw(run, error) ==
  [run EXCEPT !.pc = "done", !.outcome = "threw", !.error = error]

\* The call: the options are destructured with their defaults, and both
\* paths first await getVectorStore.
retrieveDocuments_entry(options) ==
  [IdleRetrieval EXCEPT
     !.pc = "getVectorStore",
     !.topK = Default(options.topK, JNum(DefaultTopK)).n,
     !.filter = options.filter,
     !.minScore = Default(options.minScore, JNum(DefaultMinScore)).n]

\* getVectorStore settled.  On the filtered path it is awaited outside the
\* inner try; on the unfiltered path inside it.
retrieveDocuments_afterGetVectorStore(run, storeOk) ==
  IF hasValidFilter(run.filter)
  THEN IF storeOk
       THEN [run EXCEPT !.pc = "similaritySearchWithScore",
                        !.calls = Append(@, IndexCall("similaritySearchWithScore",
                                                      run.topK, run.filter))]
       ELSE retrieveDocuments_throw(run, "getVectorStore")
  ELSE IF storeOk
       THEN [run EXCEPT !.pc = "getRelevantDocuments",
                        !.calls = Append(@, IndexCall("getRelevantDocuments",
                                                      run.topK, JUndef))]
       ELSE [run EXCEPT !.pc = "similaritySearch",
                        !.calls = Append(@, IndexCall("similaritySearch",
                                                      run.topK, JUndef))]

\* The filtered search failing is rethrown instead of caught.
retrieveDocuments_afterFilteredSearch_NoFallback(run, ok) ==
  LET settled == [run EXCEPT !.calls = SettleLast(@, ok)]
      found == similaritySearchWithScore(run.topK, run.filter)
  IN IF ok
     THEN retrieveDocuments_return(settled, found,
                                   [i \in 1..Len(found) |-> found[i].score])
     ELSE retrieveDocuments_throw(settled, "similaritySearchWithScore")

\* store.similaritySearchWithScore settled: its docs and scores, or in
\* the catch the call of similaritySearch(query, topK).
retrieveDocuments_afterFilteredSearch(run, ok) ==
  LET settled == [run EXCEPT !.calls = SettleLast(@, ok)]
      found == similaritySearchWithScore(run.topK, run.filter)
  IN IF ok
     THEN retrieveDocuments_return(settled, found,
                                   [i \in 1..Len(found) |-> found[i].score])
     ELSE [settled EXCEPT !.pc = "similaritySearch",
                          !.calls = Append(@, IndexCall("similaritySearch",
                                                        run.topK, JUndef))]

\* retriever.getRelevantDocuments settled.
retrieveDocuments_afterRetriever(run, ok) ==
  LET settled == [run EXCEPT !.calls = SettleLast(@, ok)]
      found == similaritySearchTopK(run.topK)
  IN IF ok
     THEN retrieveDocuments_return(settled, found, DefaultScores(found))
     ELSE [settled EXCEPT !.pc = "similaritySearch",
                          !.calls = Append(@, IndexCall("similaritySearch",
                                                        run.topK, JUndef))]

\* The fallback similaritySearch(query, topK) settled.
retrieveDocuments_afterSimilaritySearch(run, ok) ==
  LET settled == [run EXCEPT !.calls = SettleLast(@, ok)]
      found == similaritySearchTopK(run.topK)
  IN IF ok
     THEN retrieveDocuments_return(settled, found, DefaultScores(found))
     ELSE retrieveDocuments_throw(settled, "similaritySearch")

RetrieveDocumentsCall ==
  \E options \in RetrievalOptionSets :
    /\ retrievals.pc = "idle"
    /\ retrievals' = retrieveDocuments_entry(options)
    /\ UNCHANGED <<sseVars, routeCall, cache, now, cacheHist, genVars, ingVars>>

(***************************************************************************)
(* POST /api/query: the body is parsed by querySchema, destructured, and   *)
(* handed to generateAnswer, which builds the options of retrieveDocuments.*)
(***************************************************************************)
RequestBodies ==
  [topK : {JUndef, JNum(2)},
   useCache : {JUndef, JBool(TRUE), JBool(FALSE)},
   filter : {JUndef, JObj(<<>>), JObj(<< <<"source", JStr(<<"a">>)>> >>),
             JArr(<<JStr(<<"a">>)>>)}]

\* querySchema: filter is z.record(z.any()).optional(), which takes an
\* object that is not an array; useCache is z.boolean().optional().
querySchema_accepts(body) ==
  /\ body.filter.tag \in {"undef", "obj"}
  /\ body.useCache.tag \in {"undef", "bool"}
  /\ body.topK.tag \in {"undef", "num"}

\* The options object the handler passes to generateAnswer.
queryRoute_options(body) ==
  LET useCache == Default(body.useCache, JBool(FALSE))
      validFilter == IF Truthy(body.filter) /\ body.filter.tag = "obj"
                        /\ Len(body.filter.o) > 0
                     THEN body.filter ELSE JUndef
  IN [topK |-> body.topK, temperature |-> JUndef, maxTokens |-> JUndef,
      filter |-> validFilter,
      useCache |-> JBool(useCache # JBool(FALSE))]

\* The request arrives: a body the schema rejects is answered with an
\* error; otherwise generateAnswer is called, and (the cache holding
\* nothing) calls retrieveDocuments with the retrievalOptions it builds.
QueryRouteCall ==
  \E body \in RequestBodies :
    /\ routeCall.pc = "idle"
    /\ retrievals.pc = "idle"
    /\ cache = <<>>
    /\ IF querySchema_accepts(body)
       THEN LET options == queryRoute_options(body)
                retrievalOptions == retrievalOptionsOf(options)
            IN /\ routeCall' = [pc |-> "generateAnswer", body |-> body,
                                options |-> options]
               /\ retrievals' = retrieveDocuments_entry(
                    [topK |-> PropertyOf(retrievalOptions, "topK"),
                     filter |-> PropertyOf(retrievalOptions, "filter"),
                     minScore |-> PropertyOf(retrievalOptions, "minScore")])
       ELSE /\ routeCall' = [IdleRouteCall EXCEPT !.pc = "rejected",
                                                  !.body = body]
            /\ UNCHANGED retrievals
    /\ UNCHANGED <<sseVars, cache, now, cacheHist, genVars, ingVars>>

RetrieveGetVectorStoreSettles ==
  \E storeOk \in BOOLEAN :
    /\ retrievals.pc = "getVectorStore"
    /\ retrievals' = retrieveDocuments_afterGetVectorStore(retrievals, storeOk)
    /\ UNCHANGED <<sseVars, routeCall, cache, now, cacheHist, genVars, ingVars>>

RetrieveFilteredSearchSettles ==
  \E ok \in BOOLEAN :
    /\ retrievals.pc = "similaritySearchWithScore"
    /\ retrievals' = retrieveDocuments_afterFilteredSearch(retrievals, ok)
    /\ UNCHANGED <<sseVars, routeCall, cache, now, cacheHist, genVars, ingVars>>

RetrieveRetrieverSettles ==
  \E ok \in BOOLEAN :
    /\ retrievals.pc = "getRelevantDocuments"
    /\ retrievals' = retrieveDocuments_afterRetriever(retrievals, ok)
    /\ UNCHANGED <<sseVars, routeCall, cache, now, cacheHist, genVars, ingVars>>

RetrieveSimilaritySearchSettles ==
  \E ok \in BOOLEAN :
    /\ retrievals.pc = "similaritySearch"
    /\ retrievals' = retrieveDocuments_afterSimilaritySearch(retrievals, ok)
    /\ UNCHANGED <<sseVars, routeCall, cache, now, cacheHist, genVars, ingVars>>

RetrieveNext ==
  \/ RetrieveDocumentsCall
  \/ QueryRouteCall
  \/ RetrieveGetVectorStoreSettles
  \/ RetrieveFilteredSearchSettles
  \/ RetrieveRetrieverSettles
  \/ RetrieveSimilaritySearchSettles

SpecRetrieve == CacheInit /\ [][RetrieveNext]_vars

(***************************************************************************)
(* StatusTracker and the SSE subscribers of GET /api/status/stream.         *)
(***************************************************************************)
MaxEmits == 3

\* The status events emitted: by the upload and generation pipelines, each
\* under the id of its document or query.
EmittedEvents ==
  [id : QueryIds \cup DocIds,
   status : {"processing", "completed"}, progress : {0}]

\* One entry of the table
EventEntry(event) == <<[status |-> event.status, progress |-> event.progress]>>

\* StatusTracker.getStatus
getStatus(events, id) == events[id]

\* The handler of one subscriber with no try around the write.
statusHandler_NoCatch(stream, event) ==
  IF stream.broken
  THEN [stream |-> stream, removed |-> FALSE, threw |-> TRUE]
  ELSE [stream |-> [stream EXCEPT !.last = <<event>>, !.count = @ + 1],
        removed |-> FALSE, threw |-> FALSE]

\* statusHandler: res.write of the event; when the write throws, the catch
\* removes the listener and ends the response.
statusHandler(stream, event) ==
  IF stream.broken
  THEN [stream |-> [stream EXCEPT !.state = "ended"], removed |-> TRUE,
        threw |-> FALSE]
  ELSE [stream |-> [stream EXCEPT !.last = <<event>>, !.count = @ + 1],
        removed |-> FALSE, threw |-> FALSE]

\* EventEmitter.emit('status', event): the listeners registered when emit
\* starts are called in order; a listener that throws ends the emit.
RECURSIVE emit(_, _, _, _)
emit(snapshot, ls, strs, event) ==
  IF snapshot = <<>>
  THEN [listeners |-> ls, streams |-> strs, threw |-> FALSE]
  ELSE LET s == Head(snapshot)
           handled == statusHandler(strs[s], event)
       IN IF handled.threw
          THEN [listeners |-> ls, streams |-> strs, threw |-> TRUE]
          ELSE emit(Tail(snapshot),
                    IF handled.removed THEN Without(ls, s) ELSE ls,
                    [strs EXCEPT ![s] = handled.stream], event)

\* StatusTracker.emitStatus: events.set(event.id, statusEvent), then emit.
emitStatus(events, ls, strs, event) ==
  [events |-> [events EXCEPT ![event.id] = EventEntry(event)]] @@
  emit(ls, ls, strs, event)

StreamConnect(s) ==
  /\ streams[s].state = "none"
  /\ streams' = [streams EXCEPT ![s].state = "open"]
  /\ listeners' = Append(listeners, s)
  /\ UNCHANGED <<lastEmit, retrievals, routeCall, cache, now, cacheHist, genVars,
                 ingVars>>

\* The connection of a subscriber breaks: its writes throw from now on.
StreamBreaks(s) ==
  /\ streams[s].state = "open"
  /\ ~streams[s].broken
  /\ streams' = [streams EXCEPT ![s].broken = TRUE]
  /\ UNCHANGED <<listeners, lastEmit, retrievals, routeCall, cache, now,
                 cacheHist, genVars, ingVars>>

\* req.on('close'): the listener is removed and the response ended.
StreamClose(s) ==
  /\ streams[s].state = "open"
  /\ streams' = [streams EXCEPT ![s].state = "ended"]
  /\ listeners' = Without(listeners, s)
  /\ UNCHANGED <<lastEmit, retrievals, routeCall, cache, now, cacheHist, genVars,
                 ingVars>>

EmitStatusCall ==
  \E event \in EmittedEvents :
    LET done == emitStatus(statusEvents, listeners, streams, event)
    IN /\ lastEmit.n < MaxEmits
       /\ statusEvents' = done.events
       /\ listeners' = done.listeners
       /\ streams' = done.streams
       /\ lastEmit' = [n |-> lastEmit.n + 1, event |-> <<event>>,
                       threw |-> done.threw]
       /\ UNCHANGED <<retrievals, routeCall, cache, now, cacheHist, reqs, queries,
                      ingVars>>

StatusNext ==
  \/ \E s \in StreamIds : StreamConnect(s) \/ StreamBreaks(s) \/ StreamClose(s)
  \/ EmitStatusCall

SpecStatus == CacheInit /\ [][StatusNext]_vars

(***************************************************************************)
(* Claims about the QueryCache, checked under SpecCache.                   *)
(***************************************************************************)
\* The claims' own reading of "the same query": equal after lower-casing and
\* trimming surrounding whitespace.
SameQuery(q1, q2) == trim(toLowerCase(q1)) = trim(toLowerCase(q2))

\* The claims' own reading of "the same option set": the same members; no
\* options and an object without keys both carry none.
SameOptionSet(o1, o2) == o1.pairs = o2.pairs

KeysIn(c) == {c[i].key : i \in 1..Len(c)}

C2_RoundTrip ==
  (/\ lastOp.op = "get"
   /\ lastSet # <<>>
   /\ lastOp.o = lastSet[1].o
   /\ SameQuery(lastOp.q, lastSet[1].q))
  => lastOp.ret = <<lastSet[1].r>>

C2_OnlySetKeysHit ==
  /\ \A k \in KeysIn(cache') \ KeysIn(cache) :
       lastOp'.op = "set" /\ k = generateKey(lastOp'.q, lastOp'.o)
  /\ (lastOp'.op = "get" /\ lastOp'.ret # <<>>)
       => generateKey(lastOp'.q, lastOp'.o) \in KeysIn(cache)

\* C2: a get that follows a set(q, r, o), with only gets and deletes of other
\* keys in between (no clear, eviction, expiry or later set), returns r when it
\* passes the same options o and a query equal to q after lower-casing and
\* trimming.  A get for a key that was never set returns null: the cache
\* starts empty, an entry enters it only by a set of its key, and a get
\* returns a result only for a key whose entry is in the cache.
C2_GetAfterSet == [](C2_RoundTrip) /\ [][C2_OnlySetKeysHit]_vars

C2_Witness ==
  /\ lastOp.op = "get"
  /\ lastSet # <<>>
  /\ lastOp.o = lastSet[1].o
  /\ lastOp.o.pairs # <<>>
  /\ lastOp.q # lastSet[1].q
  /\ SameQuery(lastOp.q, lastSet[1].q)
  /\ lastOp.ret = <<lastSet[1].r>>

\* C3: after a set(q, r, o1) that left its entry alone in the cache, a
\* get(q, o2) with an option set o2 that differs from o1 returns null.
C3_DifferentOptionsMiss ==
  (/\ lastOp.op = "get"
   /\ lastSet # <<>>
   /\ Len(cache) = 1
   /\ lastOp.q = lastSet[1].q
   /\ ~SameOptionSet(lastOp.o, lastSet[1].o))
  => lastOp.ret = <<>>

\* C10: the cache never holds more than maxSize entries.
C10_SizeBounded == QueryCache_getStats(cache).size <= MaxSize

C10_Witness ==
  /\ lastOp.op = "set"
  /\ lastOp.atCapacity
  /\ Len(cache) = MaxSize

(***************************************************************************)
(* Claims about generateAnswer, checked under SpecGen.                     *)
(***************************************************************************)
CallsNamed(calls, name) == SelectSeq(calls, LAMBDA c : c.call = name)
Emits(calls) == CallsNamed(calls, "emitStatus")
Made(r, name) == CallsNamed(r.calls, name) # <<>>

\* The claims' reading of "useCache is true": the flag is true or left out.
UseCacheRequested(options) == options.useCache # JBool(FALSE)

RetrievalSettled(r) == Made(r, "retrieveDocuments") /\ r.pc # "retrieving"

\* C1: an invocation with useCache true that finds a live entry for its key
\* emits the single event cached(100), returns the stored result and makes
\* no retrieval call, no model call, no cache write and no query-log write.
C1_CacheHitShortCircuits ==
  \A id \in QueryIds :
    LET r == reqs[id]
    IN (r.pc # "idle" /\ UseCacheRequested(r.options) /\ r.liveAtStart # <<>>)
       => /\ r.pc = "done"
          /\ r.outcome = "returned"
          /\ r.result = r.liveAtStart
          /\ Emits(r.calls) = <<EmitStatus("cached", 100)>>
          /\ statusEvents[id] = <<[status |-> "cached", progress |-> 100]>>
          /\ \A name \in {"retrieveDocuments", "chain.invoke", "queryCache.set",
                          "getDatabase", "queries.insert"} : ~Made(r, name)

C1_Witness ==
  \E id \in QueryIds :
    /\ reqs[id].liveAtStart # <<>>
    /\ UseCacheRequested(reqs[id].options)
    /\ reqs[id].outcome = "returned"
    /\ reqs[id].result[1].answer = "answer"

\* C5: when retrieveDocuments throws, generateAnswer does not throw: it has
\* emitted retrieving, emits error(0), and returns the apology answer with
\* no citations and no sources, without invoking the model.
C5_RetrievalErrorApology ==
  \A id \in QueryIds :
    LET r == reqs[id]
    IN (RetrievalSettled(r) /\ ~r.retrieval.ok)
       => /\ r.pc = "done"
          /\ r.outcome = "returned"
          /\ r.error = ""
          /\ r.result = <<[answer |-> ApologyAnswer, citations |-> <<>>,
                           sources |-> <<>>]>>
          /\ Emits(r.calls) = <<EmitStatus("retrieving", 20), EmitStatus("error", 0)>>
          /\ statusEvents[id] = <<[status |-> "error", progress |-> 0]>>
          /\ ~Made(r, "chain.invoke")

C5_Witness ==
  \E id \in QueryIds :
    /\ RetrievalSettled(reqs[id])
    /\ ~reqs[id].retrieval.ok
    /\ reqs[id].outcome = "returned"

\* C6: when retrieval returns zero chunks, generateAnswer does not throw: it
\* emits no_results(0) and returns the fixed no-relevant-information answer
\* with no citations and no sources, without invoking the model.
C6_NoResultsAnswer ==
  \A id \in QueryIds :
    LET r == reqs[id]
    IN (RetrievalSettled(r) /\ r.retrieval.ok /\ r.retrieval.docs = <<>>)
       => /\ r.pc = "done"
          /\ r.outcome = "returned"
          /\ r.error = ""
          /\ r.result = <<[answer |-> NoInformationAnswer, citations |-> <<>>,
                           sources |-> <<>>]>>
          /\ Emits(r.calls) = <<EmitStatus("retrieving", 20),
                                EmitStatus("no_results", 0)>>
          /\ statusEvents[id] = <<[status |-> "no_results", progress |-> 0]>>
          /\ ~Made(r, "chain.invoke")

C6_Witness ==
  \E id \in QueryIds :
    /\ RetrievalSettled(reqs[id])
    /\ reqs[id].retrieval.ok
    /\ reqs[id].retrieval.docs = <<>>
    /\ reqs[id].outcome = "returned"

C7_Thrown ==
  \A id \in QueryIds :
    LET r == reqs[id]
    IN r.modelError # ""
       => /\ r.pc = "done"
          /\ r.outcome = "threw"
          /\ r.error = r.modelError
          /\ r.result = <<>>
          /\ ~Made(r, "queryCache.set")
          /\ ~Made(r, "queries.insert")

C7_ThrowStep ==
  (\E id \in QueryIds : reqs[id].modelError = "" /\ reqs'[id].modelError # "")
  => (cache' = cache /\ queries' = queries)

\* C7: when the model invocation throws, generateAnswer throws that same
\* error and returns no result; the invocation makes no cache write and no
\* query-log write, and the step on which the error arrives leaves the cache
\* and the query log as they were.
C7_ModelErrorPropagates == [](C7_Thrown) /\ [][C7_ThrowStep]_vars

C7_Witness ==
  \E id \in QueryIds :
    /\ reqs[id].modelError = "ModelTimeout"
    /\ reqs[id].outcome = "threw"
    /\ UseCacheRequested(reqs[id].options)
    /\ cache # <<>>

(***************************************************************************)
(* Claims about ingestion and deletion, checked under SpecIngest.          *)
(***************************************************************************)
\* deleteDocument(d) has completed successfully, called on a document that
\* the DELETE handler read with status processed.
DeletedAfterProcessed(d) ==
  /\ deletes[d].outcome = "resolved"
  /\ deletes[d].statusAtCall = "processed"

C4_NothingRemains ==
  \A d \in DocIds :
    DeletedAfterProcessed(d)
    => /\ \A c \in chunks : c.document_id # d
       /\ \A v \in vectors : v.documentId # d

C4_LaterRetrieval ==
  \A d \in DocIds :
    (DeletedAfterProcessed(d) /\ retrieved' # retrieved)
    => \A r \in retrieved' : r.documentId # d

\* C4: after deleteDocument(d) has completed successfully for a document
\* whose ingestion had finished with status processed, no chunk row of d and
\* no vector record of d's chunks remains, and every later retrieval returns
\* no chunk whose documentId is d.
C4_DeleteRemovesAll == [](C4_NothingRemains) /\ [][C4_LaterRetrieval]_vars

StatusChange(d, from, to) ==
  /\ documents[d].status = from
  /\ documents'[d].status = to

C8_OriginalStep ==
  \A d \in DocIds :
    (/\ documents[d].status # "none"
     /\ documents'[d].status # "none"
     /\ documents'[d].status # documents[d].status)
    => \/ StatusChange(d, "pending", "processing")
       \/ StatusChange(d, "processing", "processed")
       \/ StatusChange(d, "processing", "failed")

C8_AmendedStep ==
  \A d \in DocIds :
    (/\ documents[d].status # "none"
     /\ documents'[d].status # "none"
     /\ documents'[d].status # documents[d].status)
    => \/ StatusChange(d, "pending", "processing")
       \/ StatusChange(d, "pending", "failed")
       \/ StatusChange(d, "processing", "processed")
       \/ StatusChange(d, "processing", "failed")

C9_NeverRejects ==
  \A d \in DocIds :
    LET run == ingests[d]
    IN run.pc = "done"
       => /\ run.outcome = "resolved"
          /\ run.failure # ""
               => /\ run.status = "failed"
                  /\ run.error = run.failure
                  /\ run.statusAtReturn = "failed"

(***************************************************************************)
(* Claims about expiry and eviction, checked under SpecCacheTime.          *)
(***************************************************************************)
\* The step is a client's get (a set) of the QueryCache.
IsGetStep == lastOp'.op = "get" /\ now' = now /\ <<cache, lastOp>>' # <<cache, lastOp>>
IsSetStep == lastOp'.op = "set" /\ now' = now /\ <<cache, lastOp>>' # <<cache, lastOp>>

\* Time elapsed since the set that stored entry e (set records Date.now()
\* in the entry's timestamp).
AgeSinceSet(e) == now - e.value.timestamp

\* A get of a key whose entry is in the cache returns the entry's result
\* when `alive` holds of the entry and null otherwise; a returned entry
\* keeps the time of its set; a get of a key not in the cache returns null.
GetFollowsAge(alive(_)) ==
  IsGetStep =>
    LET k == generateKey(lastOp'.q, lastOp'.o)
        i == IndexOfKey(cache, k)
        j == IndexOfKey(cache', k)
    IN IF i = 0 THEN lastOp'.ret = <<>>
       ELSE IF alive(cache[i])
       THEN /\ lastOp'.ret = <<cache[i].value.result>>
            /\ j # 0
            /\ cache'[j].value.timestamp = cache[i].value.timestamp
       ELSE lastOp'.ret = <<>>

\* A set leaves an entry for its key whose age starts at the time of the set.
SetRestartsAge ==
  IsSetStep =>
    LET j == IndexOfKey(cache', generateKey(lastOp'.q, lastOp'.o))
    IN j # 0 /\ cache'[j].value.timestamp = now

C11_OriginalGetStep == GetFollowsAge(LAMBDA e : AgeSinceSet(e) < TTL)

\* C11 as stated: get returns the entry only while less than the TTL has
\* elapsed since the most recent set of its key.
C11_OriginalExpiry == [][C11_OriginalGetStep /\ SetRestartsAge]_vars

C11_AmendedGetStep == GetFollowsAge(LAMBDA e : AgeSinceSet(e) <= TTL)

\* C11: a cache entry's age is measured from the most recent set of its key:
\* get returns the entry while no more than the TTL has elapsed since that
\* set and null once more than the TTL has elapsed, a get never extends the
\* entry's life, and a set on an existing key restarts its age.
C11_ExpiryFromLastSet == [][C11_AmendedGetStep /\ SetRestartsAge]_vars

\* An entry set at an earlier time and read in between is returned when
\* exactly the TTL has elapsed.
C11_Witness ==
  /\ lastOp.op = "get"
  /\ lastOp.at = now
  /\ lastOp.ret # <<>>
  /\ \E i \in 1..Len(cache) :
       /\ cache[i].key = generateKey(lastOp.q, lastOp.o)
       /\ AgeSinceSet(cache[i]) = TTL

\* The keys a set at capacity pushed out of the cache.
EvictedKeys == KeysIn(cache) \ KeysIn(cache')

C12_OriginalStep ==
  (IsSetStep /\ lastOp'.atCapacity) =>
    LET live == {i \in 1..Len(cache) : AgeSinceSet(cache[i]) <= TTL}
    IN live # {} =>
         \E i \in live :
           /\ EvictedKeys = {cache[i].key}
           /\ \A j \in live : cache[i].value.timestamp <= cache[j].value.timestamp

\* C12 as stated: the entry evicted by a set of a new key at capacity is the
\* least recently set one among the non-expired entries, whatever gets were
\* made in between.
C12_OriginalEviction == [][C12_OriginalStep]_vars

C12_KeysInUse == KeysIn(cache) = {useOrder[i] : i \in 1..Len(useOrder)}

C12_AmendedStep ==
  (IsSetStep /\ lastOp'.atCapacity) => EvictedKeys = {useOrder[1]}

\* C12: when a set on a new key would push the entry count above maxSize,
\* the entry evicted is the least recently used one among the entries the
\* cache holds, expired or not: the one whose latest set or latest get that
\* returned it lies furthest back.  A get that returns an entry makes it the
\* most recently used, so gets in between do change which entry is evicted.
C12_EvictsLeastRecentlyUsed == [](C12_KeysInUse) /\ [][C12_AmendedStep]_vars

\* A set at capacity has evicted an entry while an entry set earlier than
\* the evicted one's successors stays: the cache is full and holds an entry
\* older than the one just set.
C12_Witness ==
  /\ lastOp.op = "set"
  /\ lastOp.atCapacity
  /\ lastOp.at = now
  /\ Len(cache) = MaxSize
  /\ cache[1].value.timestamp < now
  /\ Len(useOrder) = MaxSize
  /\ useOrder[1] = cache[1].key

(***************************************************************************)
(* Claims about the cache key, checked under SpecCacheKeys.                *)
(***************************************************************************)
\* The key/value pairs of an object, whatever the order they are listed in,
\* nested objects included (one level deep).
PairsOf(ps) ==
  { <<ps[i][1],
      IF ps[i][2].tag = "obj"
      THEN <<"obj", {<<ps[i][2].o[j][1], ps[i][2].o[j][2]>> :
                       j \in 1..Len(ps[i][2].o)}>>
      ELSE <<"val", ps[i][2]>> >> : i \in 1..Len(ps) }

SamePairs(o1, o2) == PairsOf(o1.pairs) = PairsOf(o2.pairs)

\* C13: set(q, r, o) followed by get(q, o2) returns r whenever o and o2
\* contain the same key/value pairs, in whatever order they are listed at
\* top level or inside nested values.
C13_KeyOrderIndependent ==
  (/\ lastOp.op = "get"
   /\ lastSet # <<>>
   /\ lastOp.q = lastSet[1].q
   /\ SamePairs(lastOp.o, lastSet[1].o))
  => lastOp.ret = <<lastSet[1].r>>

(***************************************************************************)
(* Further claims about generateAnswer, checked under SpecGen.             *)
(***************************************************************************)
\* Position of the first call named `name` among calls, 0 when there is none.
IndexOfCall(calls, name) ==
  IF \E i \in 1..Len(calls) : calls[i].call = name
  THEN CHOOSE i \in 1..Len(calls) :
         /\ calls[i].call = name
         /\ \A j \in 1..(i - 1) : calls[j].call # name
  ELSE 0

IndexOfEmit(calls, status) ==
  IF \E i \in 1..Len(calls) : calls[i].call = "emitStatus" /\ calls[i].status = status
  THEN CHOOSE i \in 1..Len(calls) :
         /\ calls[i].call = "emitStatus" /\ calls[i].status = status
         /\ \A j \in 1..(i - 1) :
              ~(calls[j].call = "emitStatus" /\ calls[j].status = status)
  ELSE 0

\* The model call of the invocation has succeeded.
ModelSucceeded(r) ==
  /\ Made(r, "chain.invoke")
  /\ r.pc \in {"logging", "done"}
  /\ r.modelError = ""

\* C14: for a request that misses the cache, retrieves at least one chunk
\* and whose model call succeeds, the status events under its query id are
\* exactly retrieving(20), generating(50), llm_processing(70),
\* completed(100) in that order; the model is invoked after llm_processing
\* and before completed, and completed comes before the cache write and the
\* query-log write.
C14_StatusOrder ==
  \A id \in QueryIds :
    LET r == reqs[id]
    IN ModelSucceeded(r)
       => /\ r.retrieval.ok /\ r.retrieval.docs # <<>>
          /\ Emits(r.calls) = <<EmitStatus("retrieving", 20),
                                EmitStatus("generating", 50),
                                EmitStatus("llm_processing", 70),
                                EmitStatus("completed", 100)>>
          /\ IndexOfEmit(r.calls, "llm_processing") < IndexOfCall(r.calls, "chain.invoke")
          /\ IndexOfCall(r.calls, "chain.invoke") < IndexOfEmit(r.calls, "completed")
          /\ Made(r, "queryCache.set")
               => IndexOfEmit(r.calls, "completed") < IndexOfCall(r.calls, "queryCache.set")
          /\ IndexOfEmit(r.calls, "completed") < IndexOfCall(r.calls, "getDatabase")
          /\ Made(r, "queries.insert")
               => IndexOfCall(r.calls, "getDatabase") < IndexOfCall(r.calls, "queries.insert")
          /\ statusEvents[id] = <<[status |-> "completed", progress |-> 100]>>

C14_Witness ==
  \E id \in QueryIds :
    /\ ModelSucceeded(reqs[id])
    /\ reqs[id].pc = "done"
    /\ Made(reqs[id], "queryCache.get")
    /\ Made(reqs[id], "queryCache.set")
    /\ Made(reqs[id], "queries.insert")

TerminalStatuses == {"completed", "cached", "no_results", "error"}

\* C15: for every generateAnswer call that has finished, returned or thrown,
\* the last status event recorded under its query id is one of completed,
\* cached, no_results and error.
C15_TerminalStatus ==
  \A id \in QueryIds :
    reqs[id].pc = "done"
    => /\ statusEvents[id] # <<>>
       /\ statusEvents[id][1].status \in TerminalStatuses

\* The key generateAnswer looks up and stores under for invocation r.
KeyOfReq(r) == generateKey(r.question, cacheKeyOf(r.options))

\* Invocation id takes, on this step, the step from the settled model call
\* to the query-log write.
ModelSuccessStep(id) == reqs[id].pc = "llm" /\ reqs'[id].pc = "logging"

C16_Calls ==
  \A id \in QueryIds :
    LET r == reqs[id]
    IN /\ Made(r, "queryCache.set")
            => /\ UseCacheRequested(r.options)
               /\ ModelSucceeded(r)
               /\ Len(CallsNamed(r.calls, "queryCache.set")) = 1
               /\ CallsNamed(r.calls, "queryCache.set")[1].arg
                    = CallsNamed(r.calls, "queryCache.get")[1].arg
       /\ (r.pc # "idle" /\ ~UseCacheRequested(r.options))
            => ~Made(r, "queryCache.get") /\ ~Made(r, "queryCache.set")
       /\ \A i \in 1..Len(cache) :
            cache[i].value.result.answer \notin {ApologyAnswer, NoInformationAnswer}

C16_Step ==
  /\ \A k \in KeysIn(cache') :
       LET j == IndexOfKey(cache', k)
           i == IndexOfKey(cache, k)
       IN (i = 0 \/ cache'[j].value # cache[i].value)
          => \E id \in QueryIds :
               /\ ModelSuccessStep(id)
               /\ UseCacheRequested(reqs[id].options)
               /\ k = KeyOfReq(reqs[id])
               /\ <<cache'[j].value.result>> = reqs'[id].result
  /\ \A id \in QueryIds :
       (reqs'[id] # reqs[id] /\ ~UseCacheRequested(reqs'[id].options))
       => cache' = cache

\* C16: generateAnswer writes the query cache only when useCache is true and
\* only after a successful model call, under the key (question, {topK,
\* temperature, maxTokens, filter}) it looked up at the start; the
\* no_results answer and the retrieval-error apology are never stored, and
\* an invocation with useCache false neither reads nor changes the cache.
C16_CacheWriteConditions == [](C16_Calls) /\ [][C16_Step]_vars

C16_Witness ==
  /\ \E id \in QueryIds :
       /\ Made(reqs[id], "queryCache.set")
       /\ reqs[id].options.topK = JNum(3)
       /\ IndexOfKey(cache, KeyOfReq(reqs[id])) # 0
  /\ \E id \in QueryIds :
       /\ ~UseCacheRequested(reqs[id].options)
       /\ ModelSucceeded(reqs[id])
       /\ IndexOfKey(cache, KeyOfReq(reqs[id])) = 0

C17_Returned ==
  \A id \in QueryIds :
    LET r == reqs[id]
    IN Made(r, "logger.warn")
       => /\ r.pc = "done"
          /\ r.outcome = "returned"
          /\ r.error = ""
          /\ r.result = <<[answer |-> "answer",
                           citations |-> citationsOf(r.retrieval.docs),
                           sources |-> sourcesOf(r.retrieval.docs)]>>
          /\ ~Made(r, "queries.insert")
          /\ UseCacheRequested(r.options)
               => /\ Made(r, "queryCache.set")
                  /\ IndexOfCall(r.calls, "queryCache.set")
                       < IndexOfCall(r.calls, "getDatabase")

C17_StoredBeforeLog ==
  \A id \in QueryIds :
    (ModelSuccessStep(id) /\ UseCacheRequested(reqs[id].options))
    => LiveEntry(cache', reqs[id].question, reqs[id].options, now') = reqs'[id].result

\* C17: when the query-log write fails after a successful generation,
\* generateAnswer still returns the generated result and no error reaches
\* the caller; with useCache true the result was stored in the cache before
\* the log write was attempted.
C17_LogFailureSwallowed == [](C17_Returned) /\ [][C17_StoredBeforeLog]_vars

C17_Witness ==
  \E id \in QueryIds :
    /\ Made(reqs[id], "logger.warn")
    /\ UseCacheRequested(reqs[id].options)
    /\ reqs[id].outcome = "returned"
    /\ LiveEntry(cache, reqs[id].question, reqs[id].options, now) = reqs[id].result

(***************************************************************************)
(* Further claims about ingestion and deletion, checked under SpecIngest.  *)
(***************************************************************************)
\* The run of ingestDocument for d was given a file name whose extension,
\* case aside, is none of the supported ones.
UnsupportedFile(d) ==
  /\ ingests[d].pc # "idle"
  /\ extensionToLowerCase(extname(ingests[d].filename)) \notin SupportedExtensions

C18_FailsAtParse ==
  \A d \in DocIds :
    LET run == ingests[d]
    IN UnsupportedFile(d)
       => /\ run.pc \in {"getDatabase", "parseDocument", "done"}
          /\ \A c \in chunks : c.document_id # d
          /\ \A v \in vectors : v.documentId # d
          /\ (run.pc = "done" /\ run.failure = "Unsupported file type"
              /\ run.outcome = "resolved")
               => /\ run.status = "failed"
                  /\ run.chunksCreated = 0
                  /\ run.error = "Unsupported file type"
                  /\ run.statusAtReturn \in {"failed", "none"}

C18_ParseStep ==
  \A d \in DocIds :
    (ingests[d].pc = "parseDocument" /\ ingests'[d].pc # "parseDocument"
     /\ UnsupportedFile(d))
    => /\ ingests'[d].pc = "done"
       /\ ingests'[d].failure = "Unsupported file type"
       /\ documents[d].status \in {"processing", "none"}
       /\ ingests'[d].outcome = "resolved"
            => documents'[d].status = IF documents[d].status = "none"
                                      THEN "none" ELSE "failed"

\* C18: ingesting a file whose extension is none of .pdf, .md, .markdown and
\* .txt fails at the parse step: parseDocument rejects, no chunk row and no
\* vector record is ever created for the document, and, the database
\* statements of the run succeeding, ingestDocument returns status 'failed'
\* with chunksCreated 0 and the document's status has gone
\* pending -> processing -> failed.
C18_UnsupportedExtension == [](C18_FailsAtParse) /\ [][C18_ParseStep]_vars

C18_Witness ==
  \E d \in DocIds :
    /\ uploads[d] = "acked"
    /\ ingests[d].filename = "data.xyz"
    /\ ingests[d].pc = "done"
    /\ ingests[d].outcome = "resolved"
    /\ ingests[d].status = "failed"
    /\ documents[d].status = "failed"
    /\ deletes[d].pc = "idle"

ChunkRowsOf(chs, d) == {c \in chs : c.document_id = d}

\* The document row of d is deleted at this step.
RowDeleted(d) == documents[d] # NoRow /\ documents'[d] = NoRow

C19_Step ==
  \A d \in DocIds :
    /\ RowDeleted(d)
        => /\ deletes'[d].pc = "done" /\ deletes'[d].outcome = "resolved"
           /\ ChunkRowsOf(chunks', d) = {}
           /\ \/ /\ deletes[d].pc = "deleteDocumentsFromVectorStore"
                 /\ deletes[d].chunkIds # {}
                 /\ deletes'[d].vectorDelete = "succeeded"
                 /\ \A v \in vectors' : v.id \notin deletes[d].chunkIds
              \/ /\ deletes[d].pc = "getDatabase"
                 /\ ChunkRowsOf(chunks, d) = {}
                 /\ deletes'[d].vectorDelete = "none"
    /\ (deletes[d].pc = "getDatabase"
        /\ deletes'[d].pc = "deleteDocumentsFromVectorStore")
        => /\ deletes'[d].chunkIds = {c.id : c \in ChunkRowsOf(chunks, d)}
           /\ deletes'[d].chunkIds # {}
           /\ documents'[d] = documents[d] /\ documents[d] # NoRow
           /\ ChunkRowsOf(chunks', d) = ChunkRowsOf(chunks, d)
    /\ (deletes[d].vectorDelete # "failed" /\ deletes'[d].vectorDelete = "failed")
        => /\ deletes[d].pc = "deleteDocumentsFromVectorStore"
           /\ documents'[d] = documents[d]
           /\ ChunkRowsOf(chunks', d) = ChunkRowsOf(chunks, d)
           /\ deletes'[d].pc = "done"
           /\ deletes'[d].outcome = "rejected"

\* C19: deleteDocument awaits the vector deletion for the chunk ids it read
\* before it deletes the document row; the row goes (and with it its chunk
\* rows) only at the step where that vector deletion has succeeded, or
\* straight away when the document has no chunk rows; when the vector
\* deletion fails the document row and its chunk rows stay as they are and
\* the call rejects.
C19_VectorDeletionFirst == [][C19_Step]_vars

C19_Witness ==
  \E d \in DocIds :
    /\ deletes[d].pc = "done"
    /\ deletes[d].vectorDelete = "failed"
    /\ deletes[d].outcome = "rejected"
    /\ documents[d] # NoRow
    /\ ChunkRowsOf(chunks, d) # {}

(***************************************************************************)
(* Claims about retrieveDocuments, checked under SpecRetrieve.             *)
(***************************************************************************)
\* The call was given a non-empty filter map and its filtered query failed.
FilteredSearchFailed ==
  /\ hasValidFilter(retrievals.filter)
  /\ Len(retrievals.calls) >= 1
  /\ retrievals.calls[1].call = "similaritySearchWithScore"
  /\ retrievals.calls[1].settled = "failed"

\* What an unfiltered query for k neighbours hands back, scored 1.0 each and
\* passed through the minScore option.
UnfilteredResults(k, minScore) ==
  LET found == FirstK(IndexedDocs, k)
      all == [i \in 1..Len(found) |->
                [documentId |-> found[i].documentId,
                 chunkIndex |-> found[i].chunkIndex,
                 source |-> found[i].source, score |-> DefaultScoreTenths]]
  IN IF minScore > DefaultScoreTenths THEN <<>> ELSE all

\* C20: a call of retrieveDocuments with a non-empty filter map whose
\* filtered query fails issues, as its next and last query, an unfiltered
\* similaritySearch for topK neighbours; when that query succeeds the call
\* returns its results without throwing (each scored 1.0, all of them unless
\* a minScore above 1.0 is asked for), and the call throws only when that
\* fallback query fails too.
C20_FilterFallback ==
  FilteredSearchFailed
  => /\ Len(retrievals.calls) = 2
     /\ retrievals.calls[2].call = "similaritySearch"
     /\ retrievals.calls[2].k = retrievals.topK
     /\ retrievals.calls[2].filter = JUndef
     /\ retrievals.calls[2].settled = "pending"
          => retrievals.pc = "similaritySearch" /\ retrievals.outcome = "none"
     /\ retrievals.calls[2].settled = "ok"
          => /\ retrievals.pc = "done"
             /\ retrievals.outcome = "returned"
             /\ retrievals.error = ""
             /\ retrievals.results =
                  UnfilteredResults(retrievals.topK, retrievals.minScore)
     /\ retrievals.calls[2].settled = "failed"
          => /\ retrievals.pc = "done"
             /\ retrievals.outcome = "threw"
             /\ retrievals.error = "similaritySearch"
     /\ retrievals.outcome = "threw" => retrievals.calls[2].settled = "failed"

C20_Witness ==
  /\ FilteredSearchFailed
  /\ retrievals.calls[2].settled = "ok"
  /\ retrievals.outcome = "returned"
  /\ retrievals.topK = 2
  /\ Len(retrievals.results) = 2
  /\ retrievals.results[2].source = <<"b">>

\* The filter the caller gave: the request body's when the call came by the
\* route, the options' when retrieveDocuments was called directly.
RequestFilter ==
  IF routeCall.pc = "generateAnswer" THEN routeCall.body.filter
  ELSE retrievals.filter

RequestTopK ==
  IF routeCall.pc = "generateAnswer"
  THEN Default(routeCall.body.topK, JNum(DefaultTopK)).n
  ELSE retrievals.topK

NonEmptyMap(filter) == filter.tag = "obj" /\ filter.o # <<>>

\* C21: the index is queried with a filter only when the caller's filter is
\* a non-array object with at least one key, and then with that filter; with
\* the filter absent, empty or no such object the query issued is a plain
\* one for topK neighbours; no query ever carries an empty filter.
C21_FilterOnlyWhenValid ==
  /\ routeCall.options.filter = JUndef \/ NonEmptyMap(routeCall.options.filter)
  /\ retrievals.pc # "idle"
     => /\ \A i \in 1..Len(retrievals.calls) :
             LET c == retrievals.calls[i]
             IN /\ c.filter # JUndef
                     => /\ c.call = "similaritySearchWithScore"
                        /\ NonEmptyMap(RequestFilter)
                        /\ c.filter = RequestFilter
                /\ c.filter # JObj(<<>>)
                /\ c.filter.tag # "arr"
                /\ c.k = RequestTopK
        /\ (~NonEmptyMap(RequestFilter) /\ retrievals.calls # <<>>)
             => /\ retrievals.calls[1].call \in {"getRelevantDocuments",
                                                 "similaritySearch"}
                /\ retrievals.calls[1].filter = JUndef
        /\ (NonEmptyMap(RequestFilter) /\ retrievals.calls # <<>>)
             => /\ retrievals.calls[1].call = "similaritySearchWithScore"
                /\ retrievals.calls[1].filter = RequestFilter

C21_Witness ==
  /\ routeCall.pc = "generateAnswer"
  /\ routeCall.body.filter = JObj(<<>>)
  /\ Len(retrievals.calls) = 1
  /\ retrievals.calls[1].call = "getRelevantDocuments"
  /\ retrievals.calls[1].k = DefaultTopK
  /\ retrievals.outcome = "returned"

\* The score the index reports for the record a result was made from.
IndexScoreOf(r) ==
  LET doc == CHOOSE doc \in {IndexedDocs[i] : i \in 1..Len(IndexedDocs)} :
               doc.documentId = r.documentId /\ doc.chunkIndex = r.chunkIndex
  IN doc.score

\* The documents of the call's results came from the scored (filtered) query.
ScoredPath ==
  /\ Len(retrievals.calls) = 1
  /\ retrievals.calls[1].call = "similaritySearchWithScore"
  /\ retrievals.calls[1].settled = "ok"

\* C22: every result retrieveDocuments returns carries the score the index
\* returned for its document when the documents came from the filtered
\* query, whatever that score is, and 1.0 when they came from a query that
\* returns no scores.
C22_ScoresCarried ==
  retrievals.outcome = "returned"
  => \A i \in 1..Len(retrievals.results) :
       retrievals.results[i].score =
         IF ScoredPath THEN IndexScoreOf(retrievals.results[i])
         ELSE DefaultScoreTenths

FirstIndexOf(xs, x) == CHOOSE i \in 1..Len(xs) : xs[i] = x /\ \A j \in 1..(i-1) : xs[j] # x

\* C23: the result of a successful generation has one citation per chunk
\* retrieved, in retrieval order, each with the chunk's source, page and
\* chunkIndex and the first 200 characters of its content; sources holds
\* each distinct source of the chunks once, in order of first appearance.
C23_CitationsAndSources ==
  \A id \in QueryIds :
    LET r == reqs[id]
        docs == r.retrieval.docs
        result == r.result[1]
        docSources == [i \in 1..Len(docs) |-> docs[i].source]
    IN ModelSucceeded(r)
       => /\ Len(result.citations) = Len(docs)
          /\ \A i \in 1..Len(docs) :
               /\ result.citations[i].source = docs[i].source
               /\ result.citations[i].page = docs[i].page
               /\ result.citations[i].chunkIndex = docs[i].chunkIndex
               /\ result.citations[i].content.text = docs[i].pageContent.text
               /\ result.citations[i].content.len =
                    IF docs[i].pageContent.len > CitationPreviewLen
                    THEN CitationPreviewLen ELSE docs[i].pageContent.len
          /\ {result.sources[i] : i \in 1..Len(result.sources)} =
               {docs[i].source : i \in 1..Len(docs)}
          /\ \A i, j \in 1..Len(result.sources) :
               i < j => /\ result.sources[i] # result.sources[j]
                        /\ FirstIndexOf(docSources, result.sources[i])
                             < FirstIndexOf(docSources, result.sources[j])

C23_Witness ==
  \E id \in QueryIds :
    /\ ModelSucceeded(reqs[id])
    /\ reqs[id].pc = "done"
    /\ Len(reqs[id].result[1].citations) = 3
    /\ reqs[id].result[1].citations[1].content.len = CitationPreviewLen
    /\ reqs[id].result[1].sources = <<"a.txt", "b.md">>

(***************************************************************************)
(* Claims about the StatusTracker, checked under SpecStatus.               *)
(***************************************************************************)
IsListening(ls, s) == \E i \in 1..Len(ls) : ls[i] = s

\* An emitStatus call is made at this step.
IsEmitStep == lastEmit'.n = lastEmit.n + 1

C24_Step ==
  IsEmitStep
  => LET event == lastEmit'.event[1]
     IN /\ ~lastEmit'.threw
        /\ \A s \in StreamIds :
             /\ (IsListening(listeners, s) /\ streams[s].broken)
                  => /\ ~IsListening(listeners', s)
                     /\ streams'[s].state = "ended"
                     /\ streams'[s].count = streams[s].count
                     /\ streams'[s].last = streams[s].last
             /\ (IsListening(listeners, s) /\ ~streams[s].broken)
                  => /\ IsListening(listeners', s)
                     /\ streams'[s].count = streams[s].count + 1
                     /\ streams'[s].last = <<event>>
             /\ ~IsListening(listeners, s)
                  => /\ ~IsListening(listeners', s)
                     /\ streams'[s] = streams[s]

\* C24: when the write to one subscriber throws during emitStatus, the
\* subscriber is removed and its response ended, it receives neither that
\* event nor any later one, the emitStatus call returns without throwing,
\* and every other subscriber listening receives the event, at that call
\* and at every later one.
C24_FailedSubscriberDropped == [][C24_Step]_vars

C24_Witness ==
  \E s, t \in StreamIds :
    /\ s # t
    /\ streams[s].state = "ended" /\ streams[s].broken
    /\ streams[s].count = 1
    /\ streams[t].count = 2
    /\ listeners = <<t>>
    /\ ~lastEmit.threw

TableEntries == {id \in DOMAIN statusEvents : getStatus(statusEvents, id) # <<>>}

\* C25: the table holds one event per id, the one most recently emitted
\* for it, which getStatus returns, and the number of its entries stays
\* below a bound that does not grow with the emitStatus calls made: after
\* as many calls as can be made it holds fewer entries than calls.
C25_TableBounded ==
  /\ lastEmit.n > 0
       => getStatus(statusEvents, lastEmit.event[1].id)
            = EventEntry(lastEmit.event[1])
  /\ Cardinality(TableEntries) < MaxEmits

C26_Step ==
  /\ lastOp'.op = "clear"
       => \A q \in Queries, o \in OptionSets :
            QueryCache_get(cache', q, o, now').ret = <<>>
  /\ (lastOp'.op = "get" /\ lastOp'.ret # <<>>)
       => \E i \in 1..Len(useOrder) :
            useOrder[i] = generateKey(lastOp'.q, lastOp'.o)
  /\ lastOp'.op = "set"
       => /\ lastSet' # <<>>
          /\ QueryCache_get(cache', lastOp'.q, lastOp'.o, now').ret
               = <<lastSet'[1].r>>

\* C26: right after clear() a get returns null for every query and option
\* set, whatever the cache held; from then on a get returns a result only
\* under a key set since the clear, and a set made after a clear is
\* returned by the get for it as usual.
C26_ClearEmpties == [][C26_Step]_vars

C26_Witness ==
  /\ lastOp.op = "clear"
  /\ lastOp.cleared = MaxSize
  /\ cache = <<>>

\* The k-th chunk of document d, as a chunk row and as a vector record.
IsChunkOf(c, d, k, filename) ==
  c.document_id = d /\ c.chunk_index = k /\ c.source = filename

IsVectorOf(v, d, k, filename) ==
  v.documentId = d /\ v.chunkIndex = k /\ v.source = filename

C27_Step ==
  \A d \in DocIds :
    LET n == ingests'[d].n
        filename == ingests[d].filename
    IN /\ (ingests[d].pc = "chunkDocument"
           /\ ingests'[d].pc = "addDocumentsToVectorStore")
          => /\ Cardinality(chunks' \ chunks) <= n
             /\ \A k \in 0..(n - 1) :
                  \E c \in chunks' :
                    /\ c.id = <<"generateId", d, k>>
                    /\ IsChunkOf(c, d, k, filename)
             /\ \A c \in chunks' \ chunks :
                  \E k \in 0..(n - 1) : IsChunkOf(c, d, k, filename)
       /\ (ingests[d].pc = "addDocumentsToVectorStore"
           /\ ingests'[d].pc = "done"
           /\ ingests'[d].failure # "addDocumentsToVectorStore")
          => /\ \A k \in 0..(ingests[d].n - 1) :
                  \E v \in vectors' : IsVectorOf(v, d, k, filename)
             /\ \A v \in vectors' \ vectors :
                  \E k \in 0..(ingests[d].n - 1) : IsVectorOf(v, d, k, filename)

\* C27: of the n chunks chunkDocument makes of a document, the k-th
\* (k = 0..n-1) has chunkIndex k, the document's id as documentId and the
\* document's file name as source; the chunk rows ingestDocument inserts and
\* the vector records it adds carry the same documentId and chunkIndex.
C27_ChunkMetadata == [][C27_Step]_vars

C27_Witness ==
  \E d \in DocIds :
    /\ ingests[d].pc = "done"
    /\ ingests[d].status = "success"
    /\ ingests[d].chunksCreated = MaxChunks
    /\ \A k \in 0..(MaxChunks - 1) :
         /\ \E c \in chunks : IsChunkOf(c, d, k, "REPORT.PDF")
         /\ \E v \in vectors : IsVectorOf(v, d, k, "REPORT.PDF")

\* The useCache option generateAnswer works with for the call the route made:
\* the value handed over by the route, or generateAnswer's own default.
RouteUseCache == Default(routeCall.options.useCache, JBool(TRUE))

\* C28: POST /api/query calls generateAnswer with useCache true when the
\* request body omits useCache or sets it to true, and with useCache false
\* only when the body sets useCache to false.
C28_UseCacheDefault ==
  routeCall.pc = "generateAnswer"
    => /\ routeCall.body.useCache \in {JUndef, JBool(TRUE)}
            => RouteUseCache = JBool(TRUE)
       /\ RouteUseCache = JBool(FALSE)
            => routeCall.body.useCache = JBool(FALSE)

\* deleteDocument for d was called while d's run of ingestDocument was
\* suspended, and both have finished, the deletion with success.  The row
\* has status 'processing' only from the run's first update on, and a run
\* that resolved has left it 'processed' or 'failed': a deletion that found
\* 'processing' beside a resolved run was called at the run's await of
\* parseDocument, chunkDocument or addDocumentsToVectorStore.
DeletedInFlight(d) ==
  /\ deletes[d].statusAtCall = "processing"
  /\ deletes[d].pc = "done"
  /\ deletes[d].outcome = "resolved"
  /\ ingests[d].pc = "done"
  /\ ingests[d].outcome = "resolved"

\* C29: when the DELETE handler for a document runs while the document's
\* ingestion is in flight, then once both have finished no chunk row and no
\* vector record of that document exists; and every chunk row present at any
\* time references an existing document row.
C29_DeleteDuringIngestion ==
  /\ \A d \in DocIds :
       DeletedInFlight(d)
         => /\ \A c \in chunks : c.document_id # d
            /\ \A v \in vectors : v.documentId # d
  /\ \A c \in chunks : documents[c.document_id].status # "none"

\* C30: every document record the upload handler creates eventually leaves
\* status 'pending' and reaches 'processed' or 'failed', whichever step of
\* the handler or of the ingestion run fails; and an ingestion run is started
\* for a document id exactly when the handler acknowledges it with 202.
C30_UploadsSettle ==
  /\ \A d \in DocIds :
       (documents[d].status = "pending")
         ~> (documents[d].status \in {"processed", "failed"})
  /\ [](\A d \in DocIds : uploads[d] = "acked" <=> ingests[d].pc # "idle")
====
